---- MODULE Spec2Model ----
(***************************************************************************)
(* TemporalETL: the persistence layer (insert_events_batch in its three    *)
(* revisions), the retrying pooled Database of db/db.py, the per-source    *)
(* transform step and the chunking ETLFlow orchestrator.                   *)
(*                                                                         *)
(* One module, several specifications over the same variables:             *)
(*   SpecStore      the rows written by insert_events_batch                *)
(*   SpecDb         the retry loop of db/db.py and its get_connection      *)
(*   SpecTransform  transform_data over one chunk                          *)
(*   SpecFlow       ETLFlow.run: chunking, tasks, semaphore, aggregation   *)
(*   SpecEvent      Event.__post_init__: validation and derived fields     *)
(*   SpecLoad       the load step: table name, validation, the I/O done    *)
(***************************************************************************)
EXTENDS Integers, Sequences, FiniteSets, TLC

VARIABLES
    table,        \* the events table: event_id -> stored row
    variant,      \* which revision of insert_events_batch is in use
    last,         \* the most recent insert_events_batch call: input, result
    tr_source,    \* transform step: source_kind_id ("launchpad" / "jira")
    tr_events,    \* transform step: the chunk of raw records it is given
    tr_out,       \* transform step: pending, or what it returned / that it raised
    fl_source,    \* ETLFlow.run: input.args["source_kind_id"]
    extracted,    \* ETLFlow.run: what extract_data returned
    pc,           \* ETLFlow.run: where the coroutine stands
    loop_i,       \* ETLFlow.run: i, the offset of the next chunk
    tasks,        \* the process_chunk tasks created so far: chunk_id -> task
    chunk_tasks,  \* ETLFlow.run: chunk ids of the tasks not collected yet
    sem,          \* concurrent_chunks: the semaphore's value
    total_processed,
    total_inserted,
    batch_count,
    summary,      \* the dict run returns
    db_pc,        \* Database.insert_events_batch: where the call stands
    db_events,    \* Database.insert_events_batch: its events argument
    attempt,      \* insert_events_batch: attempt of its for loop
    conn_attempt, \* get_connection: attempt of its for loop
    in_throw,     \* get_connection: resumed by the with-body's exception
    last_exception, \* get_connection: last_exception
    batch_sleeps, \* the delays insert_events_batch has slept, in order
    conn_sleeps,  \* the delays the current get_connection has slept
    tried,        \* how each attempt of insert_events_batch ended
    db_result,    \* what insert_events_batch returned or raised
    conns,        \* the pool's connections and get_connection's hold on them
    ev_in,        \* Event(...): the constructor's arguments
    ev_out,       \* Event(...): pending, the Event built, or the error raised
    ld_in,        \* load step: which client, the events, the configured table
    ld_pc,        \* load step: where the call stands
    ld_io,        \* load step: the I/O done so far, in order
    ld_out,       \* load step: pending, the count returned, or the error raised
    hb_events,    \* heartbeating load_data: its events argument
    hb_pc,        \* heartbeating load_data: where the current attempt stands
    hb_i,         \* heartbeating load_data: i of its for loop
    hb_details,   \* activity.info().heartbeat_details as the server holds it
    hb_attempt,   \* activity.info().attempt
    hb_log,       \* the batches submitted and the offsets heartbeated, in order
    mu_raw,       \* one raw record on its way through transform and load
    mu_pc,        \* how far that record has come
    mu_event,     \* the in-memory Event built from it
    mu_built,     \* the Event's fields as Event(...) left them
    mu_returned,  \* the Event's fields as transform_data returned them
    cc_table,     \* concurrent loads: the committed rows of one parent
    cc_tx,        \* concurrent loads: each call's transaction
    pl_lock,      \* Database._pool_lock: 0, or the thread that holds it
    pl_pool,      \* Database.pool: its connections, and whether it is closed
    pl_th,        \* the threads using the Database: where each one stands
    sg_in,        \* construction: the client built and each thread's table
    sg_lock,      \* the class lock _lock: 0, or the thread that holds it
    sg_cls,       \* the class attributes _instance, _initialized and counts
    sg_log,       \* the statements sent to the database, in order
    sg_th         \* the constructing threads: where each one stands

storeVars == <<table, variant, last>>
trVars == <<tr_source, tr_events, tr_out>>
runVars == <<fl_source, extracted, pc, loop_i, tasks, chunk_tasks, sem,
             total_processed, total_inserted, batch_count, summary>>

evVars == <<ev_in, ev_out>>
ldVars == <<ld_in, ld_pc, ld_io, ld_out>>
hbVars == <<hb_events, hb_pc, hb_i, hb_details, hb_attempt, hb_log>>
muVars == <<mu_raw, mu_pc, mu_event, mu_built, mu_returned>>
ccVars == <<cc_table, cc_tx>>
plVars == <<pl_lock, pl_pool, pl_th>>
sgVars == <<sg_in, sg_lock, sg_cls, sg_log, sg_th>>
restVars == <<hbVars, muVars, ccVars, plVars, sgVars>>
dbVars == <<db_pc, db_events, attempt, conn_attempt, in_throw, last_exception,
            batch_sleeps, conn_sleeps, tried, db_result, conns>>

vars == <<table, variant, last, tr_source, tr_events, tr_out,
          fl_source, extracted, pc, loop_i, tasks, chunk_tasks, sem,
          total_processed, total_inserted, batch_count, summary,
          db_pc, db_events, attempt, conn_attempt, in_throw, last_exception,
          batch_sleeps, conn_sleeps, tried, db_result, conns,
          ev_in, ev_out, ld_in, ld_pc, ld_io, ld_out,
          hb_events, hb_pc, hb_i, hb_details, hb_attempt, hb_log,
          mu_raw, mu_pc, mu_event, mu_built, mu_returned,
          cc_table, cc_tx, pl_lock, pl_pool, pl_th,
          sg_in, sg_lock, sg_cls, sg_log, sg_th>>

-----------------------------------------------------------------------------
(* Bounds of the model *)

\* psycopg2.extras.execute_values sends its argument list in pages of
\* page_size rows (100 when the caller passes none, as every call site here);
\* scaled down.
PageSize == 1
\* Longest chunk handed to transform_data in SpecTransform.
MaxChunkLen == 2
\* ETLFlow.BATCH_SIZE, the chunk size (500 in flow.py), scaled down; it stays
\* above PageSize as 500 is above 100.
BATCH_SIZE == 2
\* ETLFlow.MAX_CONCURRENT_CHUNKS (3 in flow.py), scaled down.
MAX_CONCURRENT_CHUNKS == 2
\* Longest extraction result handed to ETLFlow.run.
MaxItems == 5

-----------------------------------------------------------------------------
(* Values *)

NULL == "NULL"
EmptyDict == "{}"
EventIds == {"e1", "e2", "e3"}
PropsValues == {EmptyDict, "v1"}

\* The parent entity an event belongs to is fixed by the event.
ParentOf(id) == IF id = "e3" THEN "b-2" ELSE "b-1"

\* The event_properties values an event is extracted with: the events of
\* parent b-1 come in two versions, the one of b-2 in one.
PropsOf(id) == IF id = "e3" THEN {"v1"} ELSE PropsValues

Events ==
    UNION { { [event_id |-> id, parent_item_id |-> ParentOf(id), event_properties |-> p] :
                p \in PropsOf(id) } : id \in EventIds }

SeqsUpTo(S, n) == UNION { [1..k -> S] : k \in 0..n }

\* Batches handed to insert_events_batch: up to one row more than a page.
MaxBatchLen == PageSize + 1
Batches == SeqsUpTo(Events, MaxBatchLen)

\* Python truthiness of a str / dict / None value.
Truthy(v) == v # NULL /\ v # EmptyDict /\ v # ""

Min(a, b) == IF a < b THEN a ELSE b

-----------------------------------------------------------------------------
(* psycopg2.extras.execute_values and the three statements *)

\* _paginate: consecutive pages of at most page_size items.
RECURSIVE Paginate(_, _)
Paginate(argslist, page_size) ==
    IF Len(argslist) = 0 THEN << >>
    ELSE << SubSeq(argslist, 1, Min(page_size, Len(argslist))) >>
         \o Paginate(SubSeq(argslist, Min(page_size, Len(argslist)) + 1, Len(argslist)),
                     page_size)

\* The value bound to a JSONB column on insert:
\* psycopg2.extras.Json(e.event_properties) if e.event_properties else None
JsonOrNone(props) == IF Truthy(props) THEN props ELSE NULL

\* the columns sent as psycopg2.extras.Json(...) if ... else None
JsonColumns == {"event_properties", "relation_properties", "metrics"}

\* The row an INSERT stores for an event: its columns as sent (event_id is
\* the row's key).
StoredRow(e) ==
    [c \in DOMAIN e \ {"event_id"} |->
        IF c \in JsonColumns THEN JsonOrNone(e[c]) ELSE e[c]]

\* One INSERT ... VALUES <page> ON CONFLICT (event_id) DO NOTHING RETURNING id:
\* rows are taken in order, a row whose event_id is present (stored before, or
\* earlier in this same statement) is skipped; rowcount is the rows inserted.
RECURSIVE InsertPage(_, _, _)
InsertPage(tbl, page, count) ==
    IF Len(page) = 0 THEN [table |-> tbl, rowcount |-> count]
    ELSE LET e == Head(page) IN
         IF e.event_id \in DOMAIN tbl
         THEN InsertPage(tbl, Tail(page), count)
         ELSE InsertPage(
                [id \in DOMAIN tbl \cup {e.event_id} |->
                    IF id = e.event_id
                    THEN StoredRow(e)
                    ELSE tbl[id]],
                Tail(page), count + 1)

\* cursor.rowcount after execute_values is that of the last statement sent.
RowcountAfterPage(sofar, r) == r

\* execute_values(cursor, insert_query, values): one statement per page.
RECURSIVE InsertPages(_, _, _)
InsertPages(tbl, pages, rowcount) ==
    IF Len(pages) = 0 THEN [table |-> tbl, rowcount |-> rowcount]
    ELSE LET r == InsertPage(tbl, Head(pages), 0) IN
         InsertPages(r.table, Tail(pages), RowcountAfterPage(rowcount, r.rowcount))

execute_values_insert(tbl, values) ==
    InsertPages(tbl, Paginate(values, PageSize), -1)

\* the same dict with the first value kept for a key
RECURSIVE parent_updates_first(_, _)
parent_updates_first(events, acc) ==
    IF Len(events) = 0 THEN acc
    ELSE LET e == Head(events) IN
         parent_updates_first(Tail(events),
            IF Truthy(e.parent_item_id) /\ e.parent_item_id \notin DOMAIN acc
            THEN [p \in DOMAIN acc \cup {e.parent_item_id} |->
                    IF p = e.parent_item_id THEN e.event_properties ELSE acc[p]]
            ELSE acc)

\* parent_updates = {e.parent_item_id: e.event_properties for e in events
\*                   if e.parent_item_id}: a later event overwrites an earlier
\* one of the same parent.
RECURSIVE parent_updates(_, _)
parent_updates(events, acc) ==
    IF Len(events) = 0 THEN acc
    ELSE LET e == Head(events) IN
         parent_updates(Tail(events),
            IF Truthy(e.parent_item_id)
            THEN [p \in DOMAIN acc \cup {e.parent_item_id} |->
                    IF p = e.parent_item_id THEN e.event_properties ELSE acc[p]]
            ELSE acc)

\* UPDATE t SET event_properties = data.event_properties::jsonb
\* FROM (VALUES ...) AS data(parent_item_id, event_properties)
\* WHERE t.parent_item_id = data.parent_item_id
\* The keys of parent_updates are distinct, so the pages execute_values sends
\* touch disjoint rows and their order does not matter.
\* The backfill left out: no stored row is touched.
update_events_parents_skipped(tbl, updates) == tbl

update_events_parents(tbl, updates) ==
    [id \in DOMAIN tbl |->
        IF tbl[id].parent_item_id \in DOMAIN updates
        THEN [tbl[id] EXCEPT !.event_properties = updates[tbl[id].parent_item_id]]
        ELSE tbl[id]]

\* SET event_properties = ..., metrics = ..., version = ..., specific_version = ...
RefreshColumnsAndEmployee ==
    {"event_properties", "metrics", "version", "specific_version", "employee_id"}
RefreshColumns == {"event_properties", "metrics", "version", "specific_version"}

\* UPDATE t SET event_properties = data.event_properties::jsonb, ...
\* FROM (VALUES <page>) AS data(event_id, event_properties, ...)
\* WHERE t.event_id = data.event_id
\* A stored row matched by several rows of one page takes the value of one of
\* them, which one is not defined: every choice is an outcome.
UpdatePageByEventId(tbl, page) ==
    LET Cand(id) == { j \in 1..Len(page) : page[j].event_id = id }
        touched == { id \in DOMAIN tbl : Cand(id) # {} }
        choices == { f \in [touched -> 1..Len(page)] : \A id \in touched : f[id] \in Cand(id) }
    IN  { [id \in DOMAIN tbl |->
             IF id \in touched
             THEN [c \in DOMAIN tbl[id] |->
                     IF c \in RefreshColumns THEN page[f[id]][c] ELSE tbl[id][c]]
             ELSE tbl[id]] : f \in choices }

RECURSIVE UpdatePagesByEventId(_, _)
UpdatePagesByEventId(tbls, pages) ==
    IF Len(pages) = 0 THEN tbls
    ELSE UpdatePagesByEventId(
            UNION { UpdatePageByEventId(t, Head(pages)) : t \in tbls }, Tail(pages))

update_event_properties(tbl, values) ==
    UpdatePagesByEventId({tbl}, Paginate(values, PageSize))

-----------------------------------------------------------------------------
(* insert_events_batch: the set of (table, returned) outcomes of one call *)

\* etl/db/db.py: bulk insert, then the backfill keyed by parent_item_id.
insert_events_batch_etl(tbl, events) ==
    IF Len(events) = 0 THEN { [table |-> tbl, returned |-> 0] }
    ELSE LET ins == execute_values_insert(tbl, events)
             updates == parent_updates(events, << >>)
         IN  { [table |-> IF DOMAIN updates # {}
                          THEN update_events_parents(ins.table, updates)
                          ELSE ins.table,
                returned |-> ins.rowcount] }

\* worker/external/wpe_db/client.py: the refresh keyed by event_id, then the
\* bulk insert.
insert_events_batch_worker(tbl, events) ==
    IF Len(events) = 0 THEN { [table |-> tbl, returned |-> 0] }
    ELSE { [table |-> execute_values_insert(t, events).table,
            returned |-> execute_values_insert(t, events).rowcount] :
              t \in update_event_properties(tbl, events) }

Variants == {"etl", "worker"}

insert_events_batch(v, tbl, events) ==
    IF v = "etl" THEN insert_events_batch_etl(tbl, events)
    ELSE insert_events_batch_worker(tbl, events)

-----------------------------------------------------------------------------
(* transform_data: raw records to Events *)

MISSING == "MISSING"

\* A raw record as the extract step hands it over: a dict in which a key may
\* be absent (MISSING) or hold an empty value.
RawRecord(id, emp, time, props) ==
    [event_id |-> id, employee_id |-> emp, event_time_utc |-> time,
     parent_item_id |-> IF id = MISSING THEN MISSING ELSE ParentOf(id),
     event_properties |-> props]

\* dict.get(key): None for an absent key.
Get(raw_value) == IF raw_value = MISSING THEN NULL ELSE raw_value

\* Event.__post_init__: the required fields must be non-empty.
PostInitRaises(raw) == ~Truthy(raw.event_id) \/ ~Truthy(raw.event_time_utc)

\* The body of the try block raises: a KeyError for an absent key read with
\* event[...], or the ValueError of Event.__post_init__. The employee id is
\* non-empty there: the mapped id, or the hash / the id itself.
TryBlockRaises(raw) ==
    \/ raw.parent_item_id = MISSING
    \/ raw.event_id = MISSING
    \/ raw.event_time_utc = MISSING
    \/ PostInitRaises(raw)

MakeEvent(raw) ==
    [event_id |-> raw.event_id, parent_item_id |-> raw.parent_item_id,
     event_properties |-> raw.event_properties]

NoEmployeeRaises(source, raw) ==
    \* launchpad: raise ValueError("Employee ID is required for transformation")
    \* jira: logger.warning(f"Skipping {event['event_id']}: ...") then continue;
    \*       event['event_id'] is a KeyError when the key is absent
    IF source = "launchpad" THEN TRUE ELSE raw.event_id = MISSING

\* The loop of transform_data over the chunk; transformed is the list so far.
RECURSIVE transform_loop(_, _, _)
transform_loop(source, events, transformed) ==
    IF Len(events) = 0 THEN [raised |-> FALSE, events |-> transformed]
    ELSE LET event == Head(events) IN
         IF ~Truthy(Get(event.employee_id))
         THEN IF NoEmployeeRaises(source, event)
              THEN [raised |-> TRUE, events |-> << >>]
              ELSE transform_loop(source, Tail(events), transformed)
         ELSE IF TryBlockRaises(event)
              THEN transform_loop(source, Tail(events), transformed)
              ELSE transform_loop(source, Tail(events),
                                  Append(transformed, MakeEvent(event)))

transform_data(source, events) == transform_loop(source, events, << >>)

Sources == {"launchpad", "jira"}

TrRawRecords ==
    { RawRecord(id, emp, time, "v1") :
        id \in {MISSING, "e1", "e2"}, emp \in {MISSING, "", "u1"}, time \in {"", "t0"} }

TrPending == [status |-> "pending", events |-> << >>]

TrIdle ==
    /\ tr_source = "launchpad"
    /\ tr_events = << >>
    /\ tr_out = TrPending

TrInit ==
    /\ tr_source \in Sources
    /\ tr_events \in SeqsUpTo(TrRawRecords, MaxChunkLen)
    /\ tr_out = TrPending

\* The transform activity runs over its chunk.
Transform ==
    /\ tr_out.status = "pending"
    /\ LET r == transform_data(tr_source, tr_events) IN
       tr_out' = [status |-> IF r.raised THEN "raised" ELSE "returned",
                  events |-> r.events]
    /\ UNCHANGED <<tr_source, tr_events>>

StoreIdle ==
    /\ table = << >>
    /\ variant = "worker"
    \* last.before keeps the table as the run found it
    /\ last = [called |-> FALSE, events |-> << >>, returned |-> 0,
               before |-> table, again |-> FALSE,
               failed |-> FALSE, work |-> << >>]

ZeroSummary == [items_extracted |-> 0, items_processed |-> 0,
                items_inserted |-> 0, chunks_processed |-> 0]

RunIdle ==
    /\ fl_source = "launchpad"
    /\ extracted = << >>
    /\ pc = "idle"
    /\ loop_i = 0
    /\ tasks = << >>
    /\ chunk_tasks = {}
    /\ sem = 0
    /\ total_processed = 0
    /\ total_inserted = 0
    /\ batch_count = 0
    /\ summary = ZeroSummary

NoResult == [status |-> "none", error |-> "", value |-> 0]

EvPending == [status |-> "pending", message |-> "", event |-> << >>]

EvIdle ==
    /\ ev_in = << >>
    /\ ev_out = EvPending

LdPending == [status |-> "pending", value |-> 0, error |-> ""]

LdIdle ==
    /\ ld_in = << >>
    /\ ld_pc = "idle"
    /\ ld_io = << >>
    /\ ld_out = LdPending

HbIdle ==
    /\ hb_events = << >>
    /\ hb_pc = "idle"
    /\ hb_i = 0
    /\ hb_details = << >>
    /\ hb_attempt = 0
    /\ hb_log = << >>

MuIdle ==
    /\ mu_raw = << >>
    /\ mu_pc = "idle"
    /\ mu_event = << >>
    /\ mu_built = << >>
    /\ mu_returned = << >>

CcIdle ==
    /\ cc_table = << >>
    /\ cc_tx = << >>

PlIdle ==
    /\ pl_lock = 0
    /\ pl_pool = << >>
    /\ pl_th = << >>

SgIdle ==
    /\ sg_in = << >>
    /\ sg_lock = 0
    /\ sg_cls = << >>
    /\ sg_log = << >>
    /\ sg_th = << >>

RestIdle == HbIdle /\ MuIdle /\ CcIdle /\ PlIdle /\ SgIdle

\* DB_MIN_CONN: the pool opens min_conn connections when it is created and
\* keeps at most that many idle.
min_conn == 1

\* Connections are numbered in the order the pool opens them; 0 stands for
\* None. made: how many were opened; idle: those waiting in the pool; held:
\* those checked out; closed: those closed; connection: get_connection's
\* local variable; checked: the connection that passed the health check in
\* the current acquisition attempt; handed: the connection the with-body is
\* using; unhealthy: those that failed a health check.
NewPool == [made |-> min_conn, idle |-> 1..min_conn, held |-> {}, closed |-> {},
            connection |-> 0, checked |-> 0, handed |-> 0, unhealthy |-> {}]

DbIdle ==
    /\ db_pc = "idle"
    /\ db_events = << >>
    /\ attempt = 0
    /\ conn_attempt = 0
    /\ in_throw = FALSE
    /\ last_exception = ""
    /\ batch_sleeps = << >>
    /\ conn_sleeps = << >>
    /\ tried = << >>
    /\ db_result = NoResult
    /\ conns = NewPool

TrNext ==
    Transform /\ UNCHANGED storeVars /\ UNCHANGED runVars /\ UNCHANGED dbVars
        /\ UNCHANGED <<evVars, ldVars, restVars>>

SpecTransformInit == TrInit /\ StoreIdle /\ RunIdle /\ DbIdle /\ EvIdle /\ LdIdle /\ RestIdle

SpecTransform == SpecTransformInit /\ [][TrNext]_vars

\* A record transform_data can turn into an Event.
Transformable(raw) == Truthy(Get(raw.employee_id)) /\ ~TryBlockRaises(raw)

RECURSIVE GoodEvents(_, _)
GoodEvents(seq, acc) ==
    IF Len(seq) = 0 THEN acc
    ELSE GoodEvents(Tail(seq),
            IF Transformable(Head(seq)) THEN Append(acc, MakeEvent(Head(seq))) ELSE acc)

\* C4: a record whose transformation fails is dropped without any exception
\* leaving transform_data, and every other record of the chunk is transformed
\* and returned, in order.
C4_FailedRecordIsDropped ==
    tr_out.status # "pending" =>
        /\ tr_out.status = "returned"
        /\ tr_out.events = GoodEvents(tr_events, << >>)

\* What does hold: when transform_data returns, it returns exactly the
\* transformable records, in order.
C4_ReturnedAreTheGoodRecords ==
    tr_out.status = "returned" => tr_out.events = GoodEvents(tr_events, << >>)

-----------------------------------------------------------------------------
(* ETLFlow.run (worker/models/etl/flow.py) and its process_chunk tasks *)

\* self.MAX_CONCURRENT_CHUNKS as read for the semaphore and for the loop's test.
ConcurrencyLimitOffByOne == MAX_CONCURRENT_CHUNKS + 1
ConcurrencyLimit == MAX_CONCURRENT_CHUNKS

\* extracted[i : i + BATCH_SIZE]
SliceShort(seq, from, n) == SubSeq(seq, from + 1, Min(from + n - 1, Len(seq)))
Slice(seq, from, n) == SubSeq(seq, from + 1, Min(from + n, Len(seq)))

NewTask(chunk_data) ==
    [state |-> "created", chunk_data |-> chunk_data, cause |-> "",
     processed |-> 0, inserted |-> 0]

Finished(t) == tasks[t].state \in {"done", "failed"}

\* Awaiting a finished task (await completed_task, asyncio.gather) re-raises
\* the exception the task ended with.
AwaitNeverRaises(ts) == FALSE
AwaitRaises(ts) == \E t \in ts : tasks[t].state = "failed"

\* chunk_tasks = list(pending)
PendingKeepsDone(ts, done) == ts
Pending(ts, done) == ts \ done

RECURSIVE SumOf(_, _)
SumOf(ts, field) ==
    IF ts = {} THEN 0
    ELSE LET t == CHOOSE x \in ts : TRUE IN
         (IF field = "processed" THEN tasks[t].processed ELSE tasks[t].inserted)
            + SumOf(ts \ {t}, field)

FinalSummary(processed, inserted) ==
    [items_extracted |-> Len(extracted), items_processed |-> processed,
     items_inserted |-> inserted, chunks_processed |-> batch_count]

\* The event_ids of an extraction result, in order.
FlowIds == <<"e1", "e2", "e3", "e4", "e5", "e6", "e7", "e8">>

GoodRecord(k) == RawRecord(FlowIds[k], "u1", "t0", "v1")

\* Extraction results: records of distinct event_ids, at most one of which is
\* defective (no employee_id, or an empty required field).
FlowInputs ==
    UNION { { [k \in 1..n |-> GoodRecord(k)] } \cup
            { [k \in 1..n |-> IF k = bad THEN RawRecord(FlowIds[k], emp, time, "v1")
                              ELSE GoodRecord(k)] :
                bad \in 1..n, emp \in {"", "u1"}, time \in {"", "t0"} }
          : n \in 0..MaxItems }

RunInit ==
    /\ fl_source \in Sources
    /\ extracted \in FlowInputs
    /\ pc = "start"
    /\ loop_i = 0
    /\ tasks = << >>
    /\ chunk_tasks = {}
    /\ sem = 0
    /\ total_processed = 0
    /\ total_inserted = 0
    /\ batch_count = 0
    /\ summary = ZeroSummary

\* Lines 32-69: metadata, extract_data, the early return on an empty result,
\* the semaphore.
RunStart ==
    /\ pc = "start"
    /\ IF Len(extracted) = 0
       THEN /\ pc' = "returned"
            /\ summary' = [ZeroSummary EXCEPT !.items_extracted = Len(extracted)]
            /\ sem' = sem
       ELSE /\ pc' = "loop"
            /\ summary' = [ZeroSummary EXCEPT !.items_extracted = Len(extracted)]
            /\ sem' = ConcurrencyLimit
    /\ UNCHANGED <<fl_source, extracted, loop_i, tasks, chunk_tasks,
                   total_processed, total_inserted, batch_count>>
    /\ UNCHANGED <<table, variant, last>>
    /\ UNCHANGED <<trVars, evVars, ldVars, restVars>> /\ UNCHANGED dbVars

\* Lines 99-105: one iteration of the for loop, up to its await.
RunCreateChunk ==
    /\ pc = "loop"
    /\ loop_i < Len(extracted)
    /\ tasks' = [t \in DOMAIN tasks \cup {loop_i} |->
                    IF t = loop_i THEN NewTask(Slice(extracted, loop_i, BATCH_SIZE))
                    ELSE tasks[t]]
    /\ batch_count' = batch_count + 1
    /\ chunk_tasks' = chunk_tasks \cup {loop_i}
    /\ loop_i' = loop_i + BATCH_SIZE
    /\ pc' = IF Cardinality(chunk_tasks') >= ConcurrencyLimit THEN "wait" ELSE "loop"
    /\ UNCHANGED <<fl_source, extracted, sem, total_processed, total_inserted, summary>>
    /\ UNCHANGED <<table, variant, last>>
    /\ UNCHANGED <<trVars, evVars, ldVars, restVars>> /\ UNCHANGED dbVars

\* return_when=asyncio.FIRST_COMPLETED: the wait is over once one of the
\* tasks it was given has finished.
WaitReadyAllCompleted(ts) == \A t \in ts : Finished(t)
WaitReady(ts) == \E t \in ts : Finished(t)

\* Lines 106-115: asyncio.wait(FIRST_COMPLETED) resumes once a task has
\* finished; done is every task finished by then.
RunWaitReturns ==
    /\ pc = "wait"
    /\ WaitReady(chunk_tasks)
    /\ LET done == { t \in chunk_tasks : Finished(t) } IN
       IF AwaitRaises(done)
       THEN /\ pc' = "raised"
            /\ UNCHANGED <<chunk_tasks, total_processed, total_inserted>>
       ELSE /\ pc' = "loop"
            /\ total_processed' = total_processed + SumOf(done, "processed")
            /\ total_inserted' = total_inserted + SumOf(done, "inserted")
            /\ chunk_tasks' = Pending(chunk_tasks, done)
    /\ UNCHANGED <<fl_source, extracted, loop_i, tasks, sem, batch_count, summary>>
    /\ UNCHANGED <<table, variant, last>>
    /\ UNCHANGED <<trVars, evVars, ldVars, restVars>> /\ UNCHANGED dbVars

\* Lines 117-134 once the loop is over: gather the remaining tasks, build the
\* summary, return.
RunLoopOver ==
    /\ pc = "loop"
    /\ loop_i >= Len(extracted)
    /\ IF chunk_tasks # {}
       THEN /\ pc' = "gather"
            /\ UNCHANGED summary
       ELSE /\ pc' = "returned"
            /\ summary' = FinalSummary(total_processed, total_inserted)
    /\ UNCHANGED <<fl_source, extracted, loop_i, tasks, chunk_tasks, sem,
                   total_processed, total_inserted, batch_count>>
    /\ UNCHANGED <<table, variant, last>>
    /\ UNCHANGED <<trVars, evVars, ldVars, restVars>> /\ UNCHANGED dbVars

\* asyncio.gather propagates the first exception of its tasks.
RunGatherRaises ==
    /\ pc = "gather"
    /\ AwaitRaises(chunk_tasks)
    /\ pc' = "raised"
    /\ UNCHANGED <<fl_source, extracted, loop_i, tasks, chunk_tasks, sem,
                   total_processed, total_inserted, batch_count, summary>>
    /\ UNCHANGED <<table, variant, last>>
    /\ UNCHANGED <<trVars, evVars, ldVars, restVars>> /\ UNCHANGED dbVars

GatherReady == \A t \in chunk_tasks : Finished(t)

\* asyncio.gather returns the results once every task has finished.
RunGatherReturns ==
    /\ pc = "gather"
    /\ GatherReady
    /\ ~AwaitRaises(chunk_tasks)
    /\ total_processed' = total_processed + SumOf(chunk_tasks, "processed")
    /\ total_inserted' = total_inserted + SumOf(chunk_tasks, "inserted")
    /\ summary' = FinalSummary(total_processed', total_inserted')
    /\ pc' = "returned"
    /\ UNCHANGED <<fl_source, extracted, loop_i, tasks, chunk_tasks, sem, batch_count>>
    /\ UNCHANGED <<table, variant, last>>
    /\ UNCHANGED <<trVars, evVars, ldVars, restVars>> /\ UNCHANGED dbVars

\* Tasks run while the run coroutine is suspended in an await (or is over).
TasksMayRun == pc \in {"wait", "gather", "raised"}

\* async with concurrent_chunks: the task takes a slot and starts the
\* transform activity.
TaskStart(t) ==
    /\ TasksMayRun
    /\ tasks[t].state = "created"
    /\ sem > 0
    /\ sem' = sem - 1
    /\ tasks' = [tasks EXCEPT ![t].state = "transform"]
    /\ UNCHANGED <<fl_source, extracted, pc, loop_i, chunk_tasks,
                   total_processed, total_inserted, batch_count, summary>>
    /\ UNCHANGED <<table, variant, last>>
    /\ UNCHANGED <<trVars, evVars, ldVars, restVars>> /\ UNCHANGED dbVars

\* The transform activity ends: its events go to the load activity, or its
\* exception ends the task (leaving the with block releases the slot).
TaskTransformEnds(t) ==
    /\ TasksMayRun
    /\ tasks[t].state = "transform"
    /\ LET r == transform_data(fl_source, tasks[t].chunk_data) IN
       IF r.raised
       THEN /\ tasks' = [tasks EXCEPT ![t].state = "failed", ![t].cause = "transform"]
            /\ sem' = sem + 1
       ELSE /\ tasks' = [tasks EXCEPT ![t].state = "load",
                                      ![t].processed = Len(r.events)]
            /\ sem' = sem
    /\ UNCHANGED <<fl_source, extracted, pc, loop_i, chunk_tasks,
                   total_processed, total_inserted, batch_count, summary>>
    /\ UNCHANGED <<table, variant, last>>
    /\ UNCHANGED <<trVars, evVars, ldVars, restVars>> /\ UNCHANGED dbVars

\* load_data returns what insert_events_batch returned; the task returns
\* (len(transformed), inserted).
TaskLoadEnds(t) ==
    /\ TasksMayRun
    /\ tasks[t].state = "load"
    /\ \E out \in insert_events_batch(variant, table,
                    transform_data(fl_source, tasks[t].chunk_data).events) :
         /\ table' = out.table
         /\ tasks' = [tasks EXCEPT ![t].state = "done", ![t].inserted = out.returned]
    /\ sem' = sem + 1
    /\ UNCHANGED <<fl_source, extracted, pc, loop_i, chunk_tasks,
                   total_processed, total_inserted, batch_count, summary>>
    /\ UNCHANGED <<variant, last>>
    /\ UNCHANGED <<trVars, evVars, ldVars, restVars>> /\ UNCHANGED dbVars

\* load_data fails (the database error reaches the workflow as the activity's
\* failure): nothing is committed, the task ends with the exception.
TaskLoadFails(t) ==
    /\ TasksMayRun
    /\ tasks[t].state = "load"
    /\ tasks' = [tasks EXCEPT ![t].state = "failed", ![t].cause = "load"]
    /\ sem' = sem + 1
    /\ UNCHANGED <<fl_source, extracted, pc, loop_i, chunk_tasks,
                   total_processed, total_inserted, batch_count, summary>>
    /\ UNCHANGED <<table, variant, last>>
    /\ UNCHANGED <<trVars, evVars, ldVars, restVars>> /\ UNCHANGED dbVars

\* The table the run starts against: empty, or holding the first event already.
FlowTables ==
    { << >>,
      [id \in {"e1"} |-> [parent_item_id |-> ParentOf(id), event_properties |-> "v1"]] }

FlowInit ==
    /\ RunInit
    /\ table \in FlowTables
    /\ variant = "worker"
    \* last.before keeps the table as the run found it
    /\ last = [called |-> FALSE, events |-> << >>, returned |-> 0,
               before |-> table, again |-> FALSE,
               failed |-> FALSE, work |-> << >>]

FlowNext ==
    \/ RunStart
    \/ RunCreateChunk
    \/ RunWaitReturns
    \/ RunLoopOver
    \/ RunGatherRaises
    \/ RunGatherReturns
    \/ \E t \in DOMAIN tasks : TaskStart(t)
    \/ \E t \in DOMAIN tasks : TaskTransformEnds(t)
    \/ \E t \in DOMAIN tasks : TaskLoadEnds(t)
    \/ \E t \in DOMAIN tasks : TaskLoadFails(t)

SpecFlowInit == FlowInit /\ TrIdle /\ DbIdle /\ EvIdle /\ LdIdle /\ RestIdle

SpecFlow == SpecFlowInit /\ [][FlowNext]_vars

InFlight == { t \in DOMAIN tasks : tasks[t].state \in {"transform", "load"} }

\* C3: at every moment of a run at most MAX_CONCURRENT_CHUNKS chunks have
\* their transform+load unit in flight (started and not finished).
C3_BoundedInFlight == Cardinality(InFlight) <= MAX_CONCURRENT_CHUNKS

\* The cap is reached while further chunks are still to come.
C3_Witness ==
    /\ Cardinality(InFlight) = MAX_CONCURRENT_CHUNKS
    /\ Len(extracted) > MAX_CONCURRENT_CHUNKS * BATCH_SIZE

\* C5: when the load step of a chunk has failed, run never returns a summary,
\* whichever chunk failed and in whatever order the chunks completed.
C5_LoadFailureSurfaces ==
    (\E t \in DOMAIN tasks : tasks[t].state = "failed" /\ tasks[t].cause = "load")
        => pc # "returned"

\* The failure of a later chunk's load has left run, after another chunk had
\* already loaded its events.
C5_Witness ==
    /\ pc = "raised"
    /\ \E t, u \in DOMAIN tasks :
         /\ t > u
         /\ tasks[t].state = "failed" /\ tasks[t].cause = "load"
         /\ tasks[u].state = "done" /\ tasks[u].inserted > 0

Ceil(a, b) == (a + b - 1) \div b

\* The chunks created so far, joined in the order of their offsets, each
\* starting where the one before it ended.
RECURSIVE ChunksFrom(_)
ChunksFrom(k) ==
    IF k \notin DOMAIN tasks \/ Len(tasks[k].chunk_data) = 0 THEN << >>
    ELSE tasks[k].chunk_data \o ChunksFrom(k + Len(tasks[k].chunk_data))

LoopIsOver == pc \in {"gather", "returned"} /\ Len(extracted) > 0

\* C6: the run cuts the input of length L into exactly ceil(L/C) contiguous,
\* non-overlapping slices in input order whose sizes add up to L, and the
\* summary reports chunks_processed = ceil(L/C).
C6_Chunking ==
    /\ \A t \in DOMAIN tasks :
          Len(tasks[t].chunk_data) \in 1..BATCH_SIZE
    /\ ChunksFrom(0) = SubSeq(extracted, 1, Min(loop_i, Len(extracted)))
    /\ batch_count = Cardinality(DOMAIN tasks)
    /\ LoopIsOver =>
          /\ ChunksFrom(0) = extracted
          /\ Cardinality(DOMAIN tasks) = Ceil(Len(extracted), BATCH_SIZE)
    /\ pc = "returned" =>
          summary.chunks_processed = Ceil(Len(extracted), BATCH_SIZE)

\* A returned run whose input did not divide evenly: full chunks and a
\* shorter last one.
C6_Witness ==
    /\ pc = "returned"
    /\ Len(extracted) = MaxItems
    /\ Len(extracted) % BATCH_SIZE # 0
    /\ summary.chunks_processed = (Len(extracted) \div BATCH_SIZE) + 1
    /\ Len(tasks[0].chunk_data) = BATCH_SIZE
    /\ \E t \in DOMAIN tasks : Len(tasks[t].chunk_data) = Len(extracted) % BATCH_SIZE

\* C7: in every summary a run returns,
\* items_inserted <= items_processed <= items_extracted.
C7_CountsOrdered ==
    pc = "returned" =>
        /\ summary.items_inserted <= summary.items_processed
        /\ summary.items_processed <= summary.items_extracted

\* A returned summary in which both inequalities are strict.
C7_Witness ==
    /\ pc = "returned"
    /\ summary.items_inserted < summary.items_processed
    /\ summary.items_processed < summary.items_extracted
    /\ Cardinality(DOMAIN tasks) > MAX_CONCURRENT_CHUNKS

AllNewAndGood ==
    /\ last.before = << >>
    /\ \A k \in 1..Len(extracted) : extracted[k] = GoodRecord(k)

\* The summary is returned once every chunk is done, and its totals are the
\* sums of the chunks' counts.
C8_SummaryAfterAllChunks ==
    pc = "returned" =>
        /\ \A t \in DOMAIN tasks : tasks[t].state = "done"
        /\ summary.items_processed = SumOf(DOMAIN tasks, "processed")
        /\ summary.items_inserted = SumOf(DOMAIN tasks, "inserted")

C8_SumsWitness ==
    /\ pc = "returned"
    /\ Cardinality(DOMAIN tasks) > MAX_CONCURRENT_CHUNKS
    /\ summary.items_inserted > 1

\* C8: the summary is returned only after every chunk has completed, its
\* items_processed and items_inserted are the sums of the per-chunk counts
\* (each chunk once), and when every transform and load succeeded on new
\* events items_processed = items_inserted = items_extracted.
C8_AllInsertedWhenNew ==
    /\ C8_SummaryAfterAllChunks
    /\ (pc = "returned" /\ AllNewAndGood) =>
          /\ summary.items_processed = summary.items_extracted
          /\ summary.items_inserted = summary.items_extracted

\* The scheduling the event loop guarantees: the run coroutine is resumed
\* when its asyncio.wait is over and runs on to its next await, and a created
\* task is run up to its first await. How long an activity takes is not
\* bounded: no fairness on the end of a transform or a load.
SpecFlowFair ==
    /\ SpecFlow
    /\ WF_vars(RunWaitReturns)
    /\ WF_vars(RunCreateChunk)
    /\ WF_vars(RunLoopOver)
    /\ WF_vars(\E t \in DOMAIN tasks : TaskStart(t))

\* run is waiting with the chunk at offset k not created yet, and one of the
\* tasks it waits for has completed
SlotFreed(k) ==
    /\ pc = "wait"
    /\ loop_i = k
    /\ k < Len(extracted)
    /\ \E t \in chunk_tasks : tasks[t].state = "done"

\* the chunk at offset k holds a slot: its transform has been started
Started(k) == k \in DOMAIN tasks /\ tasks[k].state # "created"

\* C20: whenever one in-flight chunk completes while chunks remain unstarted,
\* the next chunk's work is started, however long the other in-flight chunks
\* take (unless a chunk's failure ends the run first).
C20_RefillOnSingleCompletion ==
    \A k \in 0..MaxItems : SlotFreed(k) ~> (Started(k) \/ pc = "raised")

\* a chunk created after the first wait is at work while an earlier chunk is
\* still in flight and another has completed
C20_Witness ==
    \E slow \in InFlight, k \in DOMAIN tasks, d \in DOMAIN tasks :
        /\ slow < k
        /\ d < k
        /\ tasks[d].state = "done"
        /\ k >= MAX_CONCURRENT_CHUNKS * BATCH_SIZE
        /\ Started(k)
        /\ pc = "wait"

-----------------------------------------------------------------------------
(* Database.insert_events_batch and Database.get_connection (db/db.py) *)

\* insert_events_batch(self, events, max_retries: int = 3)
max_retries == 3
\* get_connection(self, max_retries: int = 3, retry_delay: float = 1.0)
conn_max_retries == 3
retry_delay == 1
\* time.sleep(1.0 * (2 ** attempt))
base_delay == 1

\* range(max_retries + 1)
AttemptRange == 0..max_retries
ConnAttemptRange == 0..conn_max_retries

\* if attempt == max_retries: raise
IsLastAttemptNever(a) == FALSE
IsLastAttempt(a) == a = max_retries

\* The two exponential backoff delays.
BatchBackoff(a) == base_delay * (2 ^ a)
ConnBackoff(a) == retry_delay * (2 ^ a)

\* pool.getconn(): an idle connection of the pool, or a newly opened one.
Getconn(cs) ==
    IF cs.idle # {}
    THEN LET c == CHOOSE x \in cs.idle : TRUE IN
         [cs EXCEPT !.idle = @ \ {c}, !.held = @ \cup {c},
                    !.connection = c, !.checked = 0]
    ELSE [cs EXCEPT !.made = @ + 1, !.held = @ \cup {cs.made + 1},
                    !.connection = cs.made + 1, !.checked = 0]

\* pool.putconn(c, close=...): PoolError for a connection that is not checked
\* out (swallowed where the code calls it so); else the connection goes back
\* to the idle ones while fewer than min_conn wait there, and is closed
\* otherwise.
Putconn(cs, c, close) ==
    IF c \notin cs.held THEN cs
    ELSE IF Cardinality(cs.idle) < min_conn /\ ~close
         THEN [cs EXCEPT !.idle = @ \cup {c}, !.held = @ \ {c}]
         ELSE [cs EXCEPT !.closed = @ \cup {c}, !.held = @ \ {c}]

\* self.pool.putconn(connection, close=True) of the failed health check.
DiscardKeepsOpen(cs) == Putconn(cs, cs.connection, FALSE)
Discard(cs) == Putconn(cs, cs.connection, TRUE)

\* The batches a call is given: the first n of events not stored before.
DbEvent(id) == [event_id |-> id, parent_item_id |-> ParentOf(id),
                event_properties |-> "v1"]
DbBatches == { [k \in 1..n |-> DbEvent(FlowIds[k + 1])] : n \in 0..MaxBatchLen }

\* The except clause of insert_events_batch, entered with exception e: raise it
\* on the last attempt, else sleep and go round the loop (return 0 once the
\* loop is exhausted).
BatchExcept(e) ==
    /\ tried' = Append(tried, e)
    /\ IF IsLastAttempt(attempt)
       THEN /\ db_pc' = "raised"
            /\ db_result' = [status |-> "raised", error |-> e, value |-> 0]
            /\ UNCHANGED <<attempt, batch_sleeps, conn_attempt, in_throw,
                           last_exception, conn_sleeps>>
       ELSE /\ batch_sleeps' = Append(batch_sleeps, BatchBackoff(attempt))
            /\ attempt' = attempt + 1
            /\ IF attempt + 1 \in AttemptRange
               THEN /\ db_pc' = "acquire"
                    /\ conn_attempt' = 0
                    /\ in_throw' = FALSE
                    /\ last_exception' = ""
                    /\ conn_sleeps' = << >>
                    /\ UNCHANGED db_result
               ELSE /\ db_pc' = "returned"
                    /\ db_result' = [status |-> "returned", error |-> "", value |-> 0]
                    /\ UNCHANGED <<conn_attempt, in_throw, last_exception, conn_sleeps>>

\* get_connection's for loop moves to its next attempt, or is over and the
\* generator raises Exception("Failed to get healthy database connection ...").
NextConnAttempt(slept, e, thrown) ==
    IF conn_attempt + 1 \in ConnAttemptRange
    THEN /\ conn_attempt' = conn_attempt + 1
         /\ conn_sleeps' = conn_sleeps \o slept
         /\ last_exception' = e
         /\ in_throw' = thrown
         /\ db_pc' = "acquire"
         /\ UNCHANGED <<attempt, batch_sleeps, tried, db_result>>
    ELSE BatchExcept("FailedToGetHealthy")

DbInit ==
    /\ db_pc = "call"
    /\ db_events \in DbBatches
    /\ attempt = 0
    /\ conn_attempt = 0
    /\ in_throw = FALSE
    /\ last_exception = ""
    /\ batch_sleeps = << >>
    /\ conn_sleeps = << >>
    /\ tried = << >>
    /\ db_result = NoResult
    /\ conns = NewPool
    /\ table \in FlowTables
    /\ variant = "pool"
    /\ last = [called |-> FALSE, events |-> << >>, returned |-> 0,
               before |-> table, again |-> FALSE,
               failed |-> FALSE, work |-> << >>]

\* if not events: return 0; else the first attempt enters get_connection.
DbCall ==
    /\ db_pc = "call"
    /\ IF Len(db_events) = 0
       THEN /\ db_pc' = "returned"
            /\ db_result' = [status |-> "returned", error |-> "", value |-> 0]
       ELSE /\ db_pc' = "acquire"
            /\ UNCHANGED db_result
    /\ UNCHANGED <<db_events, attempt, conn_attempt, in_throw, last_exception,
                   batch_sleeps, conn_sleeps, tried, conns>>
    /\ UNCHANGED <<storeVars, trVars, evVars, ldVars, restVars, runVars>>

\* pool.getconn() (or _recreate_pool) raises: the except clause of
\* get_connection sleeps when attempt < max_retries and continues.
GetconnRaises ==
    /\ db_pc = "acquire"
    /\ NextConnAttempt(<<ConnBackoff(conn_attempt)>>, "PoolError", in_throw)
    /\ conns' = Putconn(conns, conns.connection, TRUE)
    /\ UNCHANGED db_events
    /\ UNCHANGED <<storeVars, trVars, evVars, ldVars, restVars, runVars>>

\* _is_connection_healthy returns False: the connection is discarded and the
\* loop goes on at once.
ConnectionUnhealthy ==
    /\ db_pc = "acquire"
    /\ NextConnAttempt(<< >>, last_exception, in_throw)
    /\ conns' = LET got == Getconn(conns) IN
                Discard([got EXCEPT !.unhealthy = @ \cup {got.connection}])
    /\ UNCHANGED db_events
    /\ UNCHANGED <<storeVars, trVars, evVars, ldVars, restVars, runVars>>

\* yield connection, reached from __enter__: the with-body starts.
ConnectionYielded ==
    /\ db_pc = "acquire"
    /\ ~in_throw
    /\ db_pc' = "body"
    /\ conns' = LET got == Getconn(conns) IN
                [got EXCEPT !.checked = got.connection, !.handed = got.connection]
    /\ UNCHANGED <<db_events, attempt, conn_attempt, in_throw, last_exception,
                   batch_sleeps, conn_sleeps, tried, db_result>>
    /\ UNCHANGED <<storeVars, trVars, evVars, ldVars, restVars, runVars>>

\* yield connection, reached again after the with-body's exception was thrown
\* into the generator: contextlib raises
\* RuntimeError("generator didn't stop after throw()").
GeneratorYieldsAgain ==
    /\ db_pc = "acquire"
    /\ in_throw
    /\ BatchExcept("RuntimeError")
    /\ conns' = LET got == Getconn(conns) IN [got EXCEPT !.checked = got.connection]
    /\ UNCHANGED db_events
    /\ UNCHANGED <<storeVars, trVars, evVars, ldVars, restVars, runVars>>

\* execute_values, commit, return inserted_count.
BodySucceeds ==
    /\ db_pc = "body"
    /\ LET ins == execute_values_insert(table, db_events) IN
         /\ table' = ins.table
         /\ last' = [called |-> TRUE, events |-> db_events, returned |-> ins.rowcount,
                     before |-> table, again |-> FALSE,
               failed |-> FALSE, work |-> << >>]
         /\ db_result' = [status |-> "returned", error |-> "", value |-> ins.rowcount]
    /\ tried' = Append(tried, "ok")
    /\ db_pc' = "returned"
    /\ conns' = [Putconn(conns, conns.connection, FALSE) EXCEPT !.handed = 0]
    /\ UNCHANGED <<db_events, attempt, conn_attempt, in_throw, last_exception,
                   batch_sleeps, conn_sleeps>>
    /\ UNCHANGED <<variant, trVars, evVars, ldVars, restVars, runVars>>

\* A statement of the with-body raises before the commit: the exception is
\* thrown into the generator at its yield, where the except clause of
\* get_connection catches it, sleeps and retries the acquisition.
BodyRaises ==
    /\ db_pc = "body"
    /\ NextConnAttempt(<<ConnBackoff(conn_attempt)>>, "QueryError", TRUE)
    /\ conns' = LET back == Putconn(conns, conns.connection, FALSE) IN
                [Putconn(back, back.connection, TRUE) EXCEPT !.handed = 0]
    /\ UNCHANGED db_events
    /\ UNCHANGED <<storeVars, trVars, evVars, ldVars, restVars, runVars>>

DbNext ==
    \/ DbCall
    \/ GetconnRaises
    \/ ConnectionUnhealthy
    \/ ConnectionYielded
    \/ GeneratorYieldsAgain
    \/ BodySucceeds
    \/ BodyRaises

SpecDbInit == DbInit /\ TrIdle /\ RunIdle /\ EvIdle /\ LdIdle /\ RestIdle

SpecDb == SpecDbInit /\ [][DbNext]_vars

\* The first two attempts failed, the third succeeded.
FailedTwiceThenSucceeded ==
    /\ Len(tried) >= 3
    /\ tried[1] # "ok"
    /\ tried[2] # "ok"
    /\ tried[3] = "ok"

\* After two failed attempts and a successful third the call has returned,
\* having made three attempts and slept base_delay, then twice base_delay.
C9_ThreeAttemptsWithBackoff ==
    FailedTwiceThenSucceeded =>
        /\ Len(tried) = 3
        /\ db_pc = "returned"
        /\ db_result.status = "returned"
        /\ batch_sleeps = <<base_delay, 2 * base_delay>>
        /\ \A k \in 2..Len(batch_sleeps) : batch_sleeps[k] >= batch_sleeps[k - 1]

C9_BackoffWitness ==
    /\ FailedTwiceThenSucceeded
    /\ tried[1] = "RuntimeError"
    /\ tried[2] = "FailedToGetHealthy"
    /\ db_result.value > 0

\* C9: when the first two attempts fail and the third succeeds,
\* insert_events_batch makes exactly 3 attempts, returns the inserted count
\* without raising, and each backoff delay is at least the one before it.
C9_ReturnsInsertedCount ==
    /\ C9_ThreeAttemptsWithBackoff
    /\ FailedTwiceThenSucceeded =>
          db_result.value = Cardinality(DOMAIN table) - Cardinality(DOMAIN last.before)

AllAttemptsFailed == \A k \in 1..Len(tried) : tried[k] # "ok"

\* C10 as stated: a call whose every attempt fails raises after at most 3
\* attempts in total and never attempts the batch a fourth time.
C10_AtMostThreeAttempts ==
    /\ Len(tried) <= 3
    /\ (db_pc \in {"returned", "raised"} /\ Len(db_events) > 0 /\ AllAttemptsFailed)
          => db_result.status = "raised"

\* C10, amended: a call whose every attempt fails raises after
\* max_retries + 1 = 4 attempts in total (one attempt and three retries); it
\* never attempts the batch a fifth time, and each attempt tries at most
\* conn_max_retries + 1 connection acquisitions.
C10_AtMostFourAttempts ==
    /\ Len(tried) <= max_retries + 1
    /\ Len(batch_sleeps) <= max_retries
    /\ attempt \in AttemptRange
    /\ conn_attempt \in ConnAttemptRange
    /\ (db_pc \in {"returned", "raised"} /\ Len(db_events) > 0 /\ AllAttemptsFailed)
          => /\ db_result.status = "raised"
             /\ Len(tried) = max_retries + 1
             /\ batch_sleeps = <<base_delay, 2 * base_delay, 4 * base_delay>>

C10_Witness ==
    /\ db_pc = "raised"
    /\ db_result.status = "raised"
    /\ AllAttemptsFailed
    /\ Len(tried) = max_retries + 1
    /\ Len(db_events) > 0

\* The errors raised by the database operations themselves.
OriginalErrors == {"PoolError", "QueryError"}

\* C11: when the final attempt of insert_events_batch fails, the exception
\* that reaches the caller is the original error of the failing database
\* operation, also when a statement inside the with-block raised it.
C11_OriginalErrorReachesCaller ==
    db_result.status = "raised" => db_result.error \in OriginalErrors

\* What reaches the caller is always an exception made by contextlib or by
\* get_connection.
C11_CallerSeesMachineryError ==
    db_result.status = "raised" =>
        db_result.error \in {"RuntimeError", "FailedToGetHealthy"}

C11_MachineryWitness ==
    /\ db_result.status = "raised"
    /\ db_result.error = "RuntimeError"
    /\ last_exception = "QueryError"

\* C14: get_connection hands its caller only a connection that passed the
\* health check in the same acquisition attempt; a connection that failed
\* the check is closed and discarded, never yielded and never left in the
\* pool.
C14_OnlyHealthyHandedOut ==
    /\ conns.handed # 0 =>
          /\ conns.handed = conns.checked
          /\ conns.handed = conns.connection
          /\ conns.handed \in conns.held
          /\ conns.handed \notin conns.unhealthy \cup conns.closed
    /\ db_pc = "body" => conns.handed # 0
    /\ conns.unhealthy \subseteq conns.closed
    /\ conns.unhealthy \cap (conns.idle \cup conns.held) = {}

\* The with-body holds a healthy connection obtained after another one had
\* failed the check in the same get_connection.
C14_Witness ==
    /\ db_pc = "body"
    /\ conns.handed # 0
    /\ conn_attempt > 0
    /\ conns.unhealthy # {}
    /\ last_exception = ""

-----------------------------------------------------------------------------
(* Event.__post_init__ (worker/models/event.py) and models/date_utils.py *)

\* The calendar years the event times are drawn from.
FirstYear == 2023
LastYear == 2025

IsLeap(y) == (y % 4 = 0 /\ y % 100 # 0) \/ y % 400 = 0

DaysInMonth(y, m) ==
    IF m = 2 THEN (IF IsLeap(y) THEN 29 ELSE 28)
    ELSE IF m \in {4, 6, 9, 11} THEN 30 ELSE 31

\* Calendar dates are <<year, month, day>>.
Dates ==
    { date \in (FirstYear..LastYear) \X (1..12) \X (1..31) :
        date[3] <= DaysInMonth(date[1], date[2]) }

\* datetime.toordinal(): 0001-01-01 is day 1.
DaysBeforeYear(y) ==
    LET p == y - 1 IN p * 365 + (p \div 4) - (p \div 100) + (p \div 400)

RECURSIVE DaysBeforeMonth(_, _)
DaysBeforeMonth(y, m) ==
    IF m = 1 THEN 0 ELSE DaysBeforeMonth(y, m - 1) + DaysInMonth(y, m - 1)

toordinal(date) == DaysBeforeYear(date[1]) + DaysBeforeMonth(date[1], date[2]) + date[3]

\* datetime.fromordinal(n), for the years around those in use.
fromordinal(n) ==
    LET y == CHOOSE c \in (FirstYear - 1)..(LastYear + 1) :
                DaysBeforeYear(c) < n /\ n <= DaysBeforeYear(c + 1)
        r == n - DaysBeforeYear(y)
        m == CHOOSE c \in 1..12 :
                DaysBeforeMonth(y, c) < r /\ r <= DaysBeforeMonth(y, c) + DaysInMonth(y, c)
    IN  <<y, m, r - DaysBeforeMonth(y, m)>>

\* datetime.weekday(): Monday is 0.
isoweekday(date) == ((toordinal(date) + 6) % 7) + 1
weekday(date) == (toordinal(date) + 6) % 7

\* date_obj - timedelta(days=date_obj.weekday()), formatted %Y-%m-%d.
get_week_start_date(date) == fromordinal(toordinal(date) - weekday(date))

\* Text values that carry a time: text is NULL (None), "" (empty), "iso" (a
\* well-formed ISO text, whose reading the other fields give) or any other
\* text.
NoneText == [text |-> NULL, date |-> <<0, 0, 0>>, hour |-> 0, offset |-> 0]
EmptyText == [text |-> "", date |-> <<0, 0, 0>>, hour |-> 0, offset |-> 0]
BadText == [text |-> "not-a-date", date |-> <<0, 0, 0>>, hour |-> 0, offset |-> 0]
IsoText(date, hour, offset) ==
    [text |-> "iso", date |-> date, hour |-> hour, offset |-> offset]

\* pytz.timezone(name): the zone's offset from UTC in hours (standard time),
\* UnknownTimeZoneError for a name it does not know.
KnownZones == {"UTC", "Asia/Tokyo", "America/New_York"}
UtcOffset(tz) ==
    IF tz = "Asia/Tokyo" THEN 9 ELSE IF tz = "America/New_York" THEN -5 ELSE 0

\* change_timezone(date_str, "UTC", to_tz): the reading of date_str taken as
\* UTC, moved to to_tz, .isoformat().
change_timezone(t, to_tz) ==
    LET h == t.hour + UtcOffset(to_tz)
        shift == IF h < 0 THEN -1 ELSE IF h >= 24 THEN 1 ELSE 0
    IN  IsoText(fromordinal(toordinal(t.date) + shift), h - 24 * shift, UtcOffset(to_tz))

\* The checks of __post_init__ on the required fields, in the order of the
\* code, each with the message of its ValueError.
RequiredChecksNoEmployee ==
    << [field |-> "source_kind_id", message |-> "Source kind ID cannot be empty"],
       [field |-> "event_id", message |-> "Event ID cannot be empty"],
       [field |-> "event_type", message |-> "Event type cannot be empty"],
       [field |-> "relation_type", message |-> "Relation type cannot be empty"],
       [field |-> "event_time_utc", message |-> "Event time cannot be empty"] >>
RequiredChecks ==
    << [field |-> "source_kind_id", message |-> "Source kind ID cannot be empty"],
       [field |-> "event_id", message |-> "Event ID cannot be empty"],
       [field |-> "event_type", message |-> "Event type cannot be empty"],
       [field |-> "relation_type", message |-> "Relation type cannot be empty"],
       [field |-> "employee_id", message |-> "Employee ID cannot be empty"],
       [field |-> "event_time_utc", message |-> "Event time cannot be empty"] >>

\* The text of a field, as "if not self.<field>" sees it.
TextOf(args, f) ==
    IF f \in {"event_time_utc", "week", "event_time"} THEN args[f].text ELSE args[f]

\* The first check that raises from check k on, 0 when none does.
RECURSIVE FirstFailing(_, _)
FirstFailing(args, k) ==
    IF k > Len(RequiredChecks) THEN 0
    ELSE IF ~Truthy(TextOf(args, RequiredChecks[k].field)) THEN k
    ELSE FirstFailing(args, k + 1)

Raised(message) == [status |-> "raised", message |-> message, event |-> << >>]

\* self.timezone = "UTC"
DefaultTimezoneNone == NULL
DefaultTimezone == "UTC"

\* if self.<dict> is None: self.<dict> = {}
DictOrEmpty(v) == IF v = NULL THEN EmptyDict ELSE v

\* __post_init__: the checks, then week, timezone, event_time and the dicts.
post_init(args) ==
    LET bad == FirstFailing(args, 1)
        utc == args.event_time_utc
        need_week == ~Truthy(args.week.text)
        tz == IF Truthy(args.timezone) THEN args.timezone ELSE DefaultTimezone
        need_time == ~Truthy(args.event_time.text)
    IN
    IF bad # 0 THEN Raised(RequiredChecks[bad].message)
    ELSE IF (need_week \/ need_time) /\ utc.text # "iso"
         THEN Raised("Invalid isoformat string")
    ELSE IF need_time /\ tz \notin KnownZones
         THEN Raised("UnknownTimeZoneError")
    ELSE [status |-> "ok", message |-> "",
          event |-> [args EXCEPT
             !.week = IF need_week
                      THEN IsoText(get_week_start_date(utc.date), 0, 0)
                      ELSE args.week,
             !.timezone = tz,
             !.event_time = IF need_time THEN change_timezone(utc, tz)
                            ELSE args.event_time,
             !.relation_properties = DictOrEmpty(args.relation_properties),
             !.event_properties = DictOrEmpty(args.event_properties),
             !.metrics = DictOrEmpty(args.metrics)]]

RequiredFields == { RequiredChecks[k].field : k \in 1..Len(RequiredChecks) }

\* Constructor arguments that are all valid, with nothing optional supplied.
ValidArgs(date, hour) ==
    [source_kind_id |-> "launchpad", event_id |-> "e1", event_type |-> "bug:created",
     relation_type |-> "owner", employee_id |-> "u1",
     event_time_utc |-> IsoText(date, hour, 0),
     week |-> NoneText, timezone |-> NULL, event_time |-> NoneText,
     event_properties |-> "v1", relation_properties |-> "v1", metrics |-> "v1"]

SomeDate == <<2024, 3, 6>>
SuppliedWeek == IsoText(<<2024, 1, 1>>, 0, 0)
SuppliedTime == IsoText(<<2024, 3, 6>>, 12, 2)
Hours == {0, 10, 23}

\* The arguments tried: every mix of absent, empty and valid required fields;
\* every date and hour with every week and timezone; every mix of the
\* optional fields.
EventArgs ==
    { [ValidArgs(SomeDate, 10) EXCEPT
          !.source_kind_id = a, !.event_id = b, !.event_type = c,
          !.relation_type = d, !.employee_id = e, !.event_time_utc = t,
          !.week = w] :
        a \in {NULL, "", "launchpad"}, b \in {NULL, "", "e1"},
        c \in {NULL, "", "bug:created"}, d \in {NULL, "", "owner"},
        e \in {NULL, "", "u1"},
        t \in {NoneText, EmptyText, BadText, IsoText(SomeDate, 10, 0)},
        w \in {NoneText, SuppliedWeek} }
    \cup
    { [ValidArgs(date, hour) EXCEPT !.week = w, !.timezone = tz] :
        date \in Dates, hour \in Hours, w \in {NoneText, EmptyText, SuppliedWeek},
        tz \in {NULL, ""} \cup KnownZones }
    \cup
    { [ValidArgs(SomeDate, 10) EXCEPT
          !.week = w, !.timezone = tz, !.event_time = et, !.event_time_utc = t,
          !.event_properties = p, !.relation_properties = r, !.metrics = m] :
        w \in {NoneText, SuppliedWeek},
        tz \in {NULL, "UTC", "Asia/Tokyo", "Mars/Phobos"},
        et \in {NoneText, EmptyText, SuppliedTime},
        t \in {BadText} \cup { IsoText(SomeDate, hour, 0) : hour \in Hours },
        p \in {NULL, EmptyDict, "v1"}, r \in {NULL, "v1"}, m \in {NULL, "v1"} }

EvInit ==
    /\ ev_in \in EventArgs
    /\ ev_out = EvPending

\* Event(**ev_in)
Construct ==
    /\ ev_out.status = "pending"
    /\ ev_out' = post_init(ev_in)
    /\ UNCHANGED ev_in

EvNext ==
    Construct /\ UNCHANGED <<storeVars, trVars, ldVars, restVars, runVars, dbVars>>

SpecEventInit == EvInit /\ StoreIdle /\ TrIdle /\ RunIdle /\ DbIdle /\ LdIdle /\ RestIdle

SpecEvent == SpecEventInit /\ [][EvNext]_vars

\* Exactly field f of the arguments is empty (None or "").
OnlyEmpty(f) ==
    /\ ~Truthy(TextOf(ev_in, f))
    /\ \A g \in RequiredFields \ {f} : Truthy(TextOf(ev_in, g))

\* C15: constructing an Event in which one required field is empty fails with
\* the ValueError of that field, whatever the other fields are; no Event
\* results and no derived field is computed.
C15_EmptyRequiredFieldRaises ==
    /\ \A j, k \in 1..Len(RequiredChecks) :
          j # k => /\ RequiredChecks[j].message # RequiredChecks[k].message
                   /\ RequiredChecks[j].field # RequiredChecks[k].field
    /\ RequiredFields = {"source_kind_id", "event_id", "event_type",
                         "relation_type", "employee_id", "event_time_utc"}
    /\ ev_out.status # "pending" =>
          \A k \in 1..Len(RequiredChecks) :
              OnlyEmpty(RequiredChecks[k].field) =>
                  /\ ev_out.status = "raised"
                  /\ ev_out.message = RequiredChecks[k].message
                  /\ ev_out.event = << >>

\* employee_id = "" with every other field valid.
C15_Witness ==
    /\ ev_out.status = "raised"
    /\ ev_out.message = "Employee ID cannot be empty"
    /\ ev_in.employee_id = ""
    /\ OnlyEmpty("employee_id")

\* The day of the week by Sakamoto's rule: 0 is Sunday, 1 is Monday.
MonthKey == <<0, 3, 2, 5, 0, 3, 5, 1, 4, 6, 2, 4>>
DayOfWeek(date) ==
    LET y == IF date[2] < 3 THEN date[1] - 1 ELSE date[1] IN
    (y + (y \div 4) - (y \div 100) + (y \div 400) + MonthKey[date[2]] + date[3]) % 7

\* The calendar date after date.
NextDay(date) ==
    IF date[3] < DaysInMonth(date[1], date[2]) THEN <<date[1], date[2], date[3] + 1>>
    ELSE IF date[2] < 12 THEN <<date[1], date[2] + 1, 1>>
    ELSE <<date[1] + 1, 1, 1>>

RECURSIVE DaysLater(_, _)
DaysLater(date, k) == IF k = 0 THEN date ELSE DaysLater(NextDay(date), k - 1)

WeekWasDerived == ev_out.status = "ok" /\ ~Truthy(ev_in.week.text)

\* C16: when week is not supplied, the Event's week is the ISO date of the
\* Monday on or before the calendar date of event_time_utc (a Monday maps to
\* itself), also across month and year boundaries; 2024-03-06 gives
\* 2024-03-04.
C16_WeekIsMondayOnOrBefore ==
    WeekWasDerived =>
        LET w == ev_out.event.week
            d == ev_in.event_time_utc.date
        IN  /\ w.text = "iso"
            /\ w.date[3] \in 1..DaysInMonth(w.date[1], w.date[2])
            /\ w.date[2] \in 1..12
            /\ DayOfWeek(w.date) = 1
            /\ \E k \in 0..6 : DaysLater(w.date, k) = d
            /\ DayOfWeek(d) = 1 => w.date = d
            /\ d = <<2024, 3, 6>> => w.date = <<2024, 3, 4>>

\* A Wednesday, the first of January, whose Monday lies in the year before.
C16_Witness ==
    /\ WeekWasDerived
    /\ ev_in.event_time_utc.date[2] = 1
    /\ ev_in.event_time_utc.date[3] = 1
    /\ DayOfWeek(ev_in.event_time_utc.date) = 3
    /\ ev_out.event.week.date[1] = ev_in.event_time_utc.date[1] - 1
    /\ ev_out.event.week.date[2] = 12

\* C17: a constructed Event has non-empty week, timezone and event_time; a
\* supplied value is kept, an absent one is derived (timezone "UTC",
\* event_time the event_time_utc moved into the Event's timezone); and
\* event_properties, relation_properties and metrics are never null.
C17_DerivedFieldsPopulated ==
    ev_out.status = "ok" =>
        LET e == ev_out.event
            utc == ev_in.event_time_utc
        IN  /\ Truthy(e.week.text) /\ Truthy(e.timezone) /\ Truthy(e.event_time.text)
            /\ Truthy(ev_in.week.text) => e.week = ev_in.week
            /\ Truthy(ev_in.timezone) => e.timezone = ev_in.timezone
            /\ Truthy(ev_in.event_time.text) => e.event_time = ev_in.event_time
            /\ ~Truthy(ev_in.timezone) => e.timezone = "UTC"
            /\ ~Truthy(ev_in.event_time.text) =>
                  /\ e.event_time.offset = UtcOffset(e.timezone)
                  /\ e.event_time.hour \in 0..23
                  /\ toordinal(e.event_time.date) * 24 + e.event_time.hour
                        - e.event_time.offset
                     = toordinal(utc.date) * 24 + utc.hour
            /\ e.event_properties # NULL
            /\ e.relation_properties # NULL
            /\ e.metrics # NULL

\* Everything optional absent, the timezone a day ahead of UTC at that hour.
C17_Witness ==
    /\ ev_out.status = "ok"
    /\ ev_in.week.text = NULL
    /\ ev_in.event_time.text = NULL
    /\ ev_in.event_properties = NULL
    /\ ev_in.metrics = NULL
    /\ ev_in.timezone = "Asia/Tokyo"
    /\ ev_out.event.event_time.date # ev_in.event_time_utc.date
    /\ ev_out.event.event_properties = EmptyDict

C17_DefaultsWitness ==
    /\ ev_out.status = "ok"
    /\ ev_in.timezone = NULL
    /\ ev_in.event_time.text = NULL
    /\ ev_out.event.timezone = "UTC"
    /\ ev_out.event.event_time = IsoText(ev_in.event_time_utc.date, 23, 0)

-----------------------------------------------------------------------------
(* SpecStore: sequential insert_events_batch calls against one table *)

EmptyTable == << >>

EventIdsOf(events) == { events[i].event_id : i \in 1..Len(events) }

\* A batch of pairwise distinct event_ids none of which is stored in tbl.
Fresh(events, tbl) ==
    /\ \A i, j \in 1..Len(events) : i # j => events[i].event_id # events[j].event_id
    /\ EventIdsOf(events) \cap DOMAIN tbl = {}

\* called: the call ran to its commit; again: the call before this one was
\* given the same batch, fresh at the time; failed: a statement of the call
\* raised, work being what the transaction had done by then.
NoCall == [called |-> FALSE, events |-> << >>, returned |-> 0,
           before |-> EmptyTable, again |-> FALSE,
               failed |-> FALSE, work |-> << >>]

StoreInit ==
    /\ table = EmptyTable
    /\ variant \in Variants
    /\ last = NoCall

\* One call, run to its commit. The calls are followed up to the first one
\* that raises.
Call ==
    /\ ~last.failed
    /\ \E events \in Batches :
      \E out \in insert_events_batch(variant, table, events) :
        /\ table' = out.table
        /\ UNCHANGED variant
        /\ last' = [called |-> TRUE, events |-> events, returned |-> out.returned,
                    before |-> table,
                    again |-> /\ last.called
                              /\ last.events = events
                              /\ Fresh(last.events, last.before),
                    failed |-> FALSE, work |-> << >>]

\* The prefixes of the statements execute_values sends for an insert: the
\* tables the transaction sees when its next page fails.
InsertPrefixes(tbl, values) ==
    LET pages == Paginate(values, PageSize) IN
    { InsertPages(tbl, SubSeq(pages, 1, j), -1).table : j \in 0..(Len(pages) - 1) }

\* What the open transaction has done when one of its statements raises.
\* etl/db/db.py: a page of the insert fails, or the insert is done and the
\* backfill fails. worker client: the refresh fails at once, or it is done and
\* a page of the insert fails.
PartialWork(v, tbl, events) ==
    IF v = "etl"
    THEN InsertPrefixes(tbl, events)
            \cup (IF DOMAIN parent_updates(events, << >>) # {}
                  THEN { execute_values_insert(tbl, events).table }
                  ELSE {})
    ELSE {tbl} \cup UNION { InsertPrefixes(t, events) :
                              t \in update_event_properties(tbl, events) }

\* except Exception: conn.rollback(); finally: conn.close(). What is stored
\* is what was committed.
RollbackKeepsWork(committed, work) == work
Rollback(committed, work) == committed

\* One call in which a statement raises before the commit.
CallFails ==
    /\ ~last.failed
    /\ \E events \in Batches \ {<< >>} :
      \E work \in PartialWork(variant, table, events) :
        /\ table' = Rollback(table, work)
        /\ last' = [called |-> FALSE, events |-> events, returned |-> 0,
                    before |-> table, again |-> FALSE,
                    failed |-> TRUE, work |-> work]
        /\ UNCHANGED variant

StoreNext ==
    \/ Call /\ UNCHANGED <<trVars, evVars, ldVars, restVars>> /\ UNCHANGED runVars /\ UNCHANGED dbVars
    \/ CallFails /\ UNCHANGED <<trVars, evVars, ldVars, restVars>> /\ UNCHANGED runVars /\ UNCHANGED dbVars

SpecStoreInit == StoreInit /\ TrIdle /\ RunIdle /\ DbIdle /\ EvIdle /\ LdIdle /\ RestIdle

SpecStore == SpecStoreInit /\ [][StoreNext]_vars

NumRows(tbl) == Cardinality(DOMAIN tbl)

\* C1: a batch of N pairwise distinct, not yet stored event_ids returns N;
\* the same batch submitted again returns 0 and leaves the number of stored
\* rows unchanged.
C1_IdempotentBatch ==
    /\ (last.called /\ Fresh(last.events, last.before))
            => last.returned = Len(last.events)
    /\ (last.called /\ last.again)
            => (last.returned = 0 /\ NumRows(table) = NumRows(last.before))

\* The part of C1 about the repeated call alone.
C1_RepeatIsNoOp ==
    (last.called /\ last.again)
        => (last.returned = 0 /\ NumRows(table) = NumRows(last.before))

\* The events of the last batch that belong to parent p.
OfParent(events, p) == { i \in 1..Len(events) : events[i].parent_item_id = p }

\* The last call loaded event number i of its batch as a new row, an earlier
\* call had loaded another event a of the same parent, and the last batch
\* carries one event_properties value for that parent.
LaterSibling(i, a) ==
    LET e == last.events[i] IN
    /\ last.called
    /\ a \in DOMAIN last.before
    /\ a \notin EventIdsOf(last.events)
    /\ e.event_id \notin DOMAIN last.before
    /\ last.before[a].parent_item_id = e.parent_item_id
    /\ \A j \in OfParent(last.events, e.parent_item_id) :
          last.events[j].event_properties = e.event_properties

\* A stored event_properties column holds the supplied map; SQL NULL is taken
\* as the stored form of an empty map.
HoldsValue(stored, supplied) ==
    stored = supplied \/ (stored = NULL /\ supplied = EmptyDict)

LastOfParent(events, p) ==
    events[CHOOSE i \in OfParent(events, p) :
              \A j \in OfParent(events, p) : j <= i]

BackfilledByParent ==
    \A id \in DOMAIN table :
        IF OfParent(last.events, table[id].parent_item_id) # {}
        THEN table[id].event_properties =
                LastOfParent(last.events, table[id].parent_item_id).event_properties
        ELSE id \in DOMAIN last.before /\ table[id] = last.before[id]

RowEvent(v, id, extraction) ==
    LET common ==
            [event_id |-> id,
             parent_item_id |-> IF extraction = 1 THEN ParentOf(id) ELSE "b-2",
             employee_id |-> IF extraction = 1 THEN "u1" ELSE "u2",
             relation_properties |-> IF extraction = 1 THEN "r1" ELSE "r2",
             event_properties |-> IF extraction = 1 THEN "v1" ELSE "v2",
             metrics |-> IF extraction = 1 THEN "m1" ELSE "m2"]
        versions ==
            [version |-> IF extraction = 1 THEN "1" ELSE "2",
             specific_version |-> IF extraction = 1 THEN "1.0" ELSE "2.0"]
    IN IF v = "worker" THEN common @@ versions ELSE common

RowIds == {"e1", "e3"}

RowBatches(v) ==
    SeqsUpTo({ RowEvent(v, id, x) : id \in RowIds, x \in {1, 2} }, MaxBatchLen)

\* One call with full rows, run to its commit: a first call on the empty
\* table and a second on what the first left.
RowCall ==
    /\ ~last.called \/ last.before = EmptyTable
    /\ \E events \in RowBatches(variant) :
       \E out \in insert_events_batch(variant, table, events) :
         /\ table' = out.table
         /\ last' = [called |-> TRUE, events |-> events, returned |-> out.returned,
                     before |-> table, again |-> FALSE,
                     failed |-> FALSE, work |-> << >>]
    /\ UNCHANGED variant
    /\ UNCHANGED <<trVars, evVars, ldVars, restVars>>
    /\ UNCHANGED runVars /\ UNCHANGED dbVars

SpecRowInit ==
    StoreInit /\ TrIdle /\ RunIdle /\ DbIdle /\ EvIdle /\ LdIdle /\ RestIdle

SpecRow == SpecRowInit /\ [][RowCall]_vars

KeptColumns == {"parent_item_id", "employee_id", "relation_properties"}

ParentsOf(events) == { events[i].parent_item_id : i \in 1..Len(events) }

\* C25: a call changes of a stored row at most event_properties, metrics,
\* version and specific_version; the other columns keep their stored values,
\* and a row whose event_id and parent_item_id are not in the batch is
\* untouched.
C25_OtherColumnsKept ==
    last.called =>
        \A id \in DOMAIN last.before :
            /\ id \in DOMAIN table
            /\ DOMAIN table[id] = DOMAIN last.before[id]
            /\ \A c \in KeptColumns : table[id][c] = last.before[id][c]
            /\ (/\ id \notin EventIdsOf(last.events)
                /\ last.before[id].parent_item_id \notin ParentsOf(last.events))
                  => table[id] = last.before[id]

\* a stored event was submitted again with every column different: the row
\* took the new properties and version and kept the rest
C25_Witness ==
    /\ variant = "worker"
    /\ last.called
    /\ \E i \in 1..Len(last.events) :
          LET e == last.events[i] IN
          /\ e.event_id \in DOMAIN last.before
          /\ \A c \in KeptColumns : e[c] # last.before[e.event_id][c]
          /\ table[e.event_id].event_properties = e.event_properties
          /\ table[e.event_id].version = e.version
          /\ table[e.event_id].version # last.before[e.event_id].version

\* C12: when a statement of an insert_events_batch call fails (a page of the
\* bulk insert, or the backfill / refresh update), the stored rows are exactly
\* as they were before the call.
C12_FailedCallLeavesNoTrace ==
    last.failed => table = last.before

\* The call failed after its transaction had inserted a row and changed a
\* stored one.
C12_Witness ==
    /\ last.failed
    /\ DOMAIN last.work # DOMAIN last.before
    /\ \E a \in DOMAIN last.before : last.work[a] # last.before[a]

\* C13: insert_events_batch returns exactly the number of rows that did not
\* exist before the call and exist after it, for every batch size; rows
\* touched by the backfill / refresh update are not counted.
C13_ReturnsNewRowCount ==
    last.called => last.returned = NumRows(table) - NumRows(last.before)

\* The count is exact for a batch of at most one page, and never more than
\* the rows added.
C13_SinglePageCountIsExact ==
    last.called =>
        /\ last.returned <= NumRows(table) - NumRows(last.before)
        /\ Len(last.events) <= PageSize
              => last.returned = NumRows(table) - NumRows(last.before)

C13_SinglePageWitness ==
    /\ last.called
    /\ Len(last.events) = PageSize
    /\ last.returned = PageSize
    /\ \E a \in DOMAIN last.before : table[a] # last.before[a]

-----------------------------------------------------------------------------
(* The load step: from load_data to the statements sent to the database.   *)
(* A table name is a sequence of characters; what matters of a character   *)
(* is whether the pattern's classes contain it.                            *)

\* the longest table name an input carries
MaxNameLen == 2

\* [a-zA-Z_]: the letters the model's names are made of
Letters == {"a", "c", "d", "e", "h", "l", "n", "p", "s", "t", "u", "v", "_"}
\* [0-9]
Digits == {"1"}
\* the characters a configured or derived name is drawn from
NameChars == {"a", "1", ";", "\n"}

Names == UNION { [1..n -> NameChars] : n \in 0..MaxNameLen }

\* [a-zA-Z0-9_]*, greedy: the index after the last character it consumes
\* when it starts at index from.
RECURSIVE StarEnd(_, _)
StarEnd(s, from) ==
    IF from <= Len(s) /\ s[from] \in Letters \cup Digits
    THEN StarEnd(s, from + 1)
    ELSE from

\* $ without re.MULTILINE: the end of the string, or just before a newline
\* that is the string's last character.
AtDollarAnywhere(s, p) == TRUE
AtDollar(s, p) ==
    \/ p = Len(s) + 1
    \/ p = Len(s) /\ s[p] = "\n"

\* re.match(r"^[a-zA-Z_][a-zA-Z0-9_]*$", table_name)
re_match(s) ==
    /\ Len(s) >= 1
    /\ s[1] \in Letters
    /\ AtDollar(s, StarEnd(s, 2))

\* f"{events[0].source_kind_id}_events" if events else "events"
events_suffix == <<"_", "e", "v", "e", "n", "t", "s">>
default_events_table == <<"e", "v", "e", "n", "t", "s">>
\* db/db.py names its table in the statement text itself
launchpad_events ==
    <<"l", "a", "u", "n", "c", "h", "p", "a", "d">> \o events_suffix

\* The table name each client sends its statements with.
events_table(in) ==
    CASE in.client = "worker" ->
           IF in.events # << >>
           THEN in.events[1].source_kind_id \o events_suffix
           ELSE default_events_table
      [] in.client = "etl" -> in.config_table
      [] in.client = "pool" -> launchpad_events

\* if not events: return 0
EmptyNeverReturnsEarly(events) == FALSE
EmptyReturnsEarly(events) == events = << >>

Io(op, tbl) == [op |-> op, table |-> tbl]

\* _get_connection as a context manager around one block of statements
InConnection(ops, tbl) ==
    <<Io("connect", << >>)>>
        \o [k \in 1..Len(ops) |-> Io(ops[k], tbl)]
        \o <<Io("commit", << >>), Io("close", << >>)>>

\* the statements of one call, in the order each revision sends them
StatementsOf(client) ==
    CASE client = "worker" -> <<"UPDATE", "INSERT">>
      [] client = "etl" -> <<"INSERT", "UPDATE">>
      [] client = "pool" -> <<"INSERT">>

LdEvent(kind) == [source_kind_id |-> kind]
LdEvents(kind) == { [k \in 1..n |-> LdEvent(kind)] : n \in 0..2 }

\* The calls followed: the worker's load_data with events of any
\* source_kind_id (never empty, Event refuses that), the etl load_data under
\* any DB_EVENTS_TABLE, and db/db.py's insert_events_batch.
LdInputs ==
    { [client |-> "worker", events |-> es, config_table |-> << >>] :
        es \in UNION { LdEvents(kind) : kind \in Names \ {<< >>} } }
    \cup
    { [client |-> "etl", events |-> es, config_table |-> name] :
        es \in LdEvents(<<"a">>), name \in Names }
    \cup
    { [client |-> "pool", events |-> es, config_table |-> << >>] :
        es \in LdEvents(<<"a">>) }

LdReturned(n) == [status |-> "returned", value |-> n, error |-> ""]
LdRaised(e) == [status |-> "raised", value |-> 0, error |-> e]

LdInit ==
    /\ ld_in \in LdInputs
    /\ ld_pc = "call"
    /\ ld_io = << >>
    /\ ld_out = LdPending

\* worker load_data, then WorkplaceDBClient.insert_events_batch up to its
\* call of _ensure_table_in_schema. WorkplaceDBClient() only reads the
\* environment.
LoadDataWorker ==
    /\ ld_pc = "call"
    /\ ld_in.client = "worker"
    /\ IF EmptyReturnsEarly(ld_in.events)
       THEN ld_pc' = "done" /\ ld_out' = LdReturned(0)
       ELSE ld_pc' = "ensure" /\ ld_out' = ld_out
    /\ UNCHANGED <<ld_in, ld_io>>
    /\ UNCHANGED <<storeVars, trVars, evVars, restVars, runVars, dbVars>>

\* etl load_data: nothing to load, or Database() is about to be built.
LoadDataEtl ==
    /\ ld_pc = "call"
    /\ ld_in.client = "etl"
    /\ IF EmptyReturnsEarly(ld_in.events)
       THEN ld_pc' = "done" /\ ld_out' = LdReturned(0)
       ELSE ld_pc' = "ensure" /\ ld_out' = ld_out
    /\ UNCHANGED <<ld_in, ld_io>>
    /\ UNCHANGED <<storeVars, trVars, evVars, restVars, runVars, dbVars>>

\* _ensure_table_in_schema / _ensure_schema: the pattern first, then one
\* connection for CREATE TABLE IF NOT EXISTS.
EnsureTable ==
    /\ ld_pc = "ensure"
    /\ IF re_match(events_table(ld_in))
       THEN /\ ld_io' = ld_io \o InConnection(<<"CREATE">>, events_table(ld_in))
            /\ ld_pc' = "insert"
            /\ ld_out' = ld_out
       ELSE /\ ld_io' = ld_io
            /\ ld_pc' = "done"
            /\ ld_out' = LdRaised("ValueError")
    /\ UNCHANGED ld_in
    /\ UNCHANGED <<storeVars, trVars, evVars, restVars, runVars, dbVars>>

\* the with-block of insert_events_batch in the two one-connection clients;
\* how many of the rows were new is the table's matter, not followed here.
InsertStatements ==
    /\ ld_pc = "insert"
    /\ ld_io' = ld_io \o InConnection(StatementsOf(ld_in.client),
                                      events_table(ld_in))
    /\ ld_pc' = "done"
    /\ \E n \in 0..Len(ld_in.events) : ld_out' = LdReturned(n)
    /\ UNCHANGED ld_in
    /\ UNCHANGED <<storeVars, trVars, evVars, restVars, runVars, dbVars>>

\* db/db.py insert_events_batch: the early return, or into its retry loop.
PoolCall ==
    /\ ld_pc = "call"
    /\ ld_in.client = "pool"
    /\ IF EmptyReturnsEarly(ld_in.events)
       THEN ld_pc' = "done" /\ ld_out' = LdReturned(0)
       ELSE ld_pc' = "attempt" /\ ld_out' = ld_out
    /\ UNCHANGED <<ld_in, ld_io>>
    /\ UNCHANGED <<storeVars, trVars, evVars, restVars, runVars, dbVars>>

\* attempt of the retry loop: one less than the sleeps taken so far
Slept(io) == Cardinality({ k \in DOMAIN io : io[k].op = "sleep" })

\* one attempt of db/db.py that goes through
PoolAttemptSucceeds ==
    /\ ld_pc = "attempt"
    /\ ld_io' = ld_io \o
          <<Io("getconn", << >>), Io("SELECT 1", << >>),
            Io("INSERT", launchpad_events), Io("commit", << >>),
            Io("putconn", << >>)>>
    /\ ld_pc' = "done"
    /\ \E n \in 0..Len(ld_in.events) : ld_out' = LdReturned(n)
    /\ UNCHANGED ld_in
    /\ UNCHANGED <<storeVars, trVars, evVars, restVars, runVars, dbVars>>

\* one attempt of db/db.py that fails: re-raise on the last, sleep otherwise
PoolAttemptFails ==
    /\ ld_pc = "attempt"
    /\ Slept(ld_io) \in AttemptRange
    /\ IF Slept(ld_io) = max_retries
       THEN /\ ld_io' = ld_io \o <<Io("getconn", << >>)>>
            /\ ld_pc' = "done"
            /\ ld_out' = LdRaised("QueryError")
       ELSE /\ ld_io' = ld_io \o <<Io("getconn", << >>), Io("sleep", << >>)>>
            /\ ld_pc' = "attempt"
            /\ ld_out' = ld_out
    /\ UNCHANGED ld_in
    /\ UNCHANGED <<storeVars, trVars, evVars, restVars, runVars, dbVars>>

LdNext ==
    \/ LoadDataWorker
    \/ LoadDataEtl
    \/ EnsureTable
    \/ InsertStatements
    \/ PoolCall
    \/ PoolAttemptSucceeds
    \/ PoolAttemptFails

SpecLoadInit == LdInit /\ StoreIdle /\ TrIdle /\ RunIdle /\ DbIdle /\ EvIdle /\ RestIdle

SpecLoad == SpecLoadInit /\ [][LdNext]_vars

\* A name the pattern's language contains: a letter or underscore, then
\* letters, digits and underscores.
IsIdentifier(s) ==
    /\ Len(s) >= 1
    /\ s[1] \in Letters
    /\ \A k \in 2..Len(s) : s[k] \in Letters \cup Digits

\* What Python's re.match takes for a match of the pattern: an identifier,
\* or an identifier followed by one final newline.
PatternAccepts(s) ==
    \/ IsIdentifier(s)
    \/ /\ Len(s) >= 2
       /\ s[Len(s)] = "\n"
       /\ IsIdentifier(SubSeq(s, 1, Len(s) - 1))

Statements == {"CREATE", "INSERT", "UPDATE"}

\* C18: no CREATE, INSERT or UPDATE is sent with a table name the pattern
\* does not match, and a call whose table name does not match ends in
\* ValueError with no connection opened and no statement run.
C18_OnlyMatchingNamesReachTheDatabase ==
    /\ \A k \in DOMAIN ld_io :
          ld_io[k].op \in Statements => PatternAccepts(ld_io[k].table)
    /\ (ld_in.events # << >> /\ ~PatternAccepts(events_table(ld_in))) =>
          /\ ld_io = << >>
          /\ ld_pc \in {"call", "ensure", "done"}
          /\ ld_pc = "done" => ld_out = LdRaised("ValueError")

\* a name carrying a ";" was refused before anything was opened
C18_Witness ==
    /\ ld_out = LdRaised("ValueError")
    /\ ld_io = << >>
    /\ \E k \in DOMAIN events_table(ld_in) : events_table(ld_in)[k] = ";"

\* a matching name went through table creation, update and insert
C18_StatementsWitness ==
    /\ ld_in.client = "worker"
    /\ ld_out.status = "returned"
    /\ { ld_io[k].op : k \in DOMAIN ld_io } \cap Statements = Statements

\* C18 read with the pattern as the set of identifiers: fails for a
\* configured name that is an identifier followed by a newline.
C18_OnlyIdentifiersReachTheDatabase ==
    \A k \in DOMAIN ld_io :
        ld_io[k].op \in Statements => IsIdentifier(ld_io[k].table)

\* C19: insert_events_batch with an empty list returns 0 and does no I/O:
\* no connection, no statement, no sleep.
C19_EmptyListNoIO ==
    ld_in.events = << >> =>
        /\ ld_io = << >>
        /\ ld_pc \in {"call", "done"}
        /\ ld_pc = "done" => ld_out = LdReturned(0)

\* every client has returned 0 for an empty list; for the worker the table
\* name was not even checked
C19_Witness ==
    /\ ld_in.events = << >>
    /\ ld_pc = "done"
    /\ ld_out = LdReturned(0)
    /\ ld_in.client = "pool"

C19_WorkerWitness ==
    /\ ld_in.events = << >>
    /\ ld_out = LdReturned(0)
    /\ ld_in.client = "worker"

-----------------------------------------------------------------------------
(* load_data of models/etl_flow.py: batches with a heartbeat after each,   *)
(* resumed from the heartbeat details when the activity is re-executed.    *)

\* the attempts of the activity that are followed
MaxAttempts == 3

oldVars == <<storeVars, trVars, evVars, ldVars, runVars, dbVars>>

OldIdle == StoreIdle /\ TrIdle /\ EvIdle /\ LdIdle /\ RunIdle /\ DbIdle

\* what the steps of load_data leave alone
HbFrame == UNCHANGED <<oldVars, muVars, ccVars, plVars, sgVars>>

\* int(heartbeat_details[0]) if heartbeat_details else 0
already_inserted_zero(details) == 0
already_inserted(details) == IF details # << >> THEN details[1] ELSE 0

HbInsert(a, from, to) == [op |-> "insert", attempt |-> a, from |-> from, to |-> to]
HbBeat(a, offset) == [op |-> "heartbeat", attempt |-> a, from |-> offset, to |-> offset]

HbInit ==
    /\ hb_events \in { [k \in 1..n |-> FlowIds[k]] : n \in 0..MaxItems }
    /\ hb_pc = "start"
    /\ hb_i = 0
    /\ hb_details = << >>
    /\ hb_attempt = 1
    /\ hb_log = << >>

\* Lines 127-133: Database(), already_inserted, loaded, the loop's first test.
ActivityStart ==
    /\ hb_pc = "start"
    /\ hb_i' = already_inserted(hb_details)
    /\ hb_pc' = IF hb_i' < Len(hb_events) THEN "loop" ELSE "returned"
    /\ UNCHANGED <<hb_events, hb_details, hb_attempt, hb_log>>
    /\ HbFrame

\* Lines 134-135: batch = events[i:i + BATCH_SIZE]; db.insert_events_batch(batch)
ActivityInsert ==
    /\ hb_pc = "loop"
    /\ hb_log' = Append(hb_log,
          HbInsert(hb_attempt, hb_i,
                   hb_i + Len(Slice(hb_events, hb_i, BATCH_SIZE))))
    /\ hb_pc' = "inserted"
    /\ UNCHANGED <<hb_events, hb_i, hb_details, hb_attempt>>
    /\ HbFrame

\* Lines 137-138 and the loop's next test: heartbeat(i + len(batch)).
ActivityHeartbeat ==
    /\ hb_pc = "inserted"
    /\ LET inserted == hb_i + Len(Slice(hb_events, hb_i, BATCH_SIZE)) IN
       /\ hb_details' = <<inserted>>
       /\ hb_log' = Append(hb_log, HbBeat(hb_attempt, inserted))
    /\ hb_i' = hb_i + BATCH_SIZE
    /\ hb_pc' = IF hb_i' < Len(hb_events) THEN "loop" ELSE "returned"
    /\ UNCHANGED <<hb_events, hb_attempt>>
    /\ HbFrame

\* The attempt ends early: insert_events_batch raised, or the worker was
\* lost before the insert or between the insert and its heartbeat.
ActivityFails ==
    /\ hb_pc \in {"loop", "inserted"}
    /\ hb_pc' = "failed"
    /\ UNCHANGED <<hb_events, hb_i, hb_details, hb_attempt, hb_log>>
    /\ HbFrame

\* The activity is re-executed: the next attempt sees the details of the
\* last heartbeat.
ActivityRetry ==
    /\ hb_pc = "failed"
    /\ hb_attempt < MaxAttempts
    /\ hb_attempt' = hb_attempt + 1
    /\ hb_pc' = "start"
    /\ UNCHANGED <<hb_events, hb_i, hb_details, hb_log>>
    /\ HbFrame

HbNext ==
    \/ ActivityStart
    \/ ActivityInsert
    \/ ActivityHeartbeat
    \/ ActivityFails
    \/ ActivityRetry

SpecHeartbeatInit == HbInit /\ OldIdle /\ MuIdle /\ CcIdle /\ PlIdle /\ SgIdle

SpecHeartbeat == SpecHeartbeatInit /\ [][HbNext]_vars

HbBeats == { k \in DOMAIN hb_log : hb_log[k].op = "heartbeat" }
HbInserts == { k \in DOMAIN hb_log : hb_log[k].op = "insert" }

\* C21: a re-executed load_data submits only events at or after the offset
\* heartbeated before, so no batch loaded and heartbeated is submitted again;
\* the offsets heartbeated increase strictly and end at the number of events.
C21_ResumeFromHeartbeat ==
    /\ \A b \in HbBeats, k \in HbInserts :
          b < k => hb_log[k].from >= hb_log[b].from
    /\ \A b \in HbBeats, c \in HbBeats :
          b < c => hb_log[b].from < hb_log[c].from
    /\ (hb_pc = "returned" /\ Len(hb_events) > 0) =>
          \E b \in HbBeats :
              /\ hb_log[b].from = Len(hb_events)
              /\ \A c \in HbBeats : c <= b

\* a second attempt resumed past the batch the first one heartbeated, and
\* the activity returned
C21_Witness ==
    /\ hb_pc = "returned"
    /\ \E b \in HbBeats, k \in HbInserts :
          /\ hb_log[b].attempt = 1
          /\ hb_log[k].attempt = 2
          /\ hb_log[k].from = hb_log[b].from
          /\ hb_log[k].from > 0

-----------------------------------------------------------------------------
(* One Event from Event(...) through the rest of transform_data to the     *)
(* load step. A dict is a record whose absent keys hold MISSING (an absent *)
(* list is empty, an absent change has present = FALSE).                   *)

MuFrame == UNCHANGED <<oldVars, hbVars, ccVars, plVars, sgVars>>

NoChange == [present |-> FALSE, from |-> MISSING, to |-> MISSING]
Change(from, to) == [present |-> TRUE, from |-> from, to |-> to]

Props(assignee, change, mentions) ==
    [assignee |-> assignee, change |-> change, mentions |-> mentions,
     from_mentions |-> << >>, to_mentions |-> << >>]

\* SalesforceClient.get_launchpad_employee_ids(): launchpad id -> employee id
employee_hrc_map(id) == IF id = "lp1" THEN "hrc1" ELSE NULL

sha256(x) ==
    CASE x = "" -> "sha256()"
      [] x = "lp1" -> "sha256(lp1)"
      [] OTHER -> "sha256(lp9)"

\* jira_id_email_map then hrc_email_id_map; None for no id or no entry
translate_jira_id_to_hrc_id(jira_id) ==
    IF jira_id = "j1" THEN "hrc1" ELSE NULL

\* no "@" in the model's ids: the translation, or the id itself
extract_employee_id(extraction_id) ==
    IF translate_jira_id_to_hrc_id(extraction_id) # NULL
    THEN translate_jira_id_to_hrc_id(extraction_id)
    ELSE extraction_id

\* JiraUtils.extract_mentions on the two texts of the model
extract_mentions(text) ==
    IF text = "hi [~accountid:j1]"
    THEN [new |-> "hi @{0}", mentions |-> <<"j1">>]
    ELSE [new |-> text, mentions |-> << >>]

\* Event(...) as both transform_data build it
MuConstructed(raw) ==
    [id |-> NULL,
     source_kind_id |-> raw.source,
     event_id |-> "e1",
     event_type |-> raw.event_type,
     employee_id |-> "hrc1",
     event_properties |-> raw.event_properties,
     relation_properties |-> [assignee |-> MISSING],
     metrics |-> EmptyDict]

\* launchpad, after Event(...): the assignee of a question_created event
launchpad_after(e) ==
    IF e.event_type = "question_created"
    THEN LET assignee == IF e.event_properties.assignee = MISSING THEN ""
                         ELSE e.event_properties.assignee
             id == employee_hrc_map(assignee)
         IN [e EXCEPT !.relation_properties.assignee =
                        IF id # NULL THEN id ELSE sha256(assignee)]
    ELSE e

transform_assignee_change(e) ==
    LET change == e.event_properties.change
        from_hrc_id == translate_jira_id_to_hrc_id(change.from)
        to_hrc_id == translate_jira_id_to_hrc_id(change.to)
    IN IF ~change.present THEN e
       ELSE [e EXCEPT !.event_properties.change.from =
                          IF from_hrc_id # NULL THEN from_hrc_id ELSE @,
                      !.event_properties.change.to =
                          IF to_hrc_id # NULL THEN to_hrc_id ELSE @]

transform_description_and_acceptance_change(e) ==
    LET change == e.event_properties.change
        from == extract_mentions(change.from)
        to == extract_mentions(change.to)
        ids(found) == [k \in 1..Len(found) |-> extract_employee_id(found[k])]
    IN IF ~change.present THEN e
       ELSE [e EXCEPT !.event_properties.change.from =
                          IF change.from = MISSING THEN @ ELSE from.new,
                      !.event_properties.from_mentions =
                          IF change.from = MISSING THEN @ ELSE ids(from.mentions),
                      !.event_properties.change.to =
                          IF change.to = MISSING THEN @ ELSE to.new,
                      !.event_properties.to_mentions =
                          IF change.to = MISSING THEN @ ELSE ids(to.mentions)]

transform_jira_mentions(e) ==
    [e EXCEPT !.event_properties.mentions =
        [k \in 1..Len(@) |-> extract_employee_id(@[k])]]

\* jira, after Event(...): the branch its event_type selects
jira_after(e) ==
    IF e.event_type = "assignee_changed" THEN transform_assignee_change(e)
    ELSE IF e.event_type \in {"acceptance_changed", "description_changed"}
    THEN transform_description_and_acceptance_change(e)
    ELSE IF e.event_properties.mentions # << >> THEN transform_jira_mentions(e)
    ELSE e

\* insert_events_batch reads the Event's fields into the rows it sends; the
\* id the database assigns is never written back.
LoadAssignsId(e) == [e EXCEPT !.id = "1"]
LoadReads(e) == e

MuIds == {MISSING, "j1", "j9"}
MuTexts == {MISSING, "plain", "hi [~accountid:j1]"}
MuMentions == {<< >>, <<"j1">>, <<"j9", "j1">>}

MuRaws ==
    { [source |-> "launchpad", event_type |-> type,
       event_properties |-> Props(a, NoChange, << >>)] :
        type \in {"question_created", "bug_created"},
        a \in {MISSING, "lp1", "lp9"} }
    \cup
    { [source |-> "jira", event_type |-> "assignee_changed",
       event_properties |-> Props(MISSING, c, << >>)] :
        c \in {NoChange} \cup { Change(f, t) : f \in MuIds, t \in MuIds } }
    \cup
    { [source |-> "jira", event_type |-> type,
       event_properties |-> Props(MISSING, c, << >>)] :
        type \in {"acceptance_changed", "description_changed"},
        c \in {NoChange} \cup { Change(f, t) : f \in MuTexts, t \in MuTexts } }
    \cup
    { [source |-> "jira", event_type |-> "comment_created",
       event_properties |-> Props(MISSING, NoChange, m)] : m \in MuMentions }

MuInit ==
    /\ mu_raw \in MuRaws
    /\ mu_pc = "raw"
    /\ mu_event = << >>
    /\ mu_built = << >>
    /\ mu_returned = << >>

\* e = Event(...)
MuConstruct ==
    /\ mu_pc = "raw"
    /\ mu_event' = MuConstructed(mu_raw)
    /\ mu_built' = mu_event'
    /\ mu_pc' = "constructed"
    /\ UNCHANGED <<mu_raw, mu_returned>>
    /\ MuFrame

\* the lines between Event(...) and transformed.append(e), then the return
MuFinishTransform ==
    /\ mu_pc = "constructed"
    /\ mu_event' = IF mu_raw.source = "launchpad" THEN launchpad_after(mu_event)
                   ELSE jira_after(mu_event)
    /\ mu_returned' = mu_event'
    /\ mu_pc' = "transformed"
    /\ UNCHANGED <<mu_raw, mu_built>>
    /\ MuFrame

\* load_data: insert_events_batch with its refresh of stored rows
MuLoad ==
    /\ mu_pc = "transformed"
    /\ mu_event' = LoadReads(mu_event)
    /\ mu_pc' = "loaded"
    /\ UNCHANGED <<mu_raw, mu_built, mu_returned>>
    /\ MuFrame

MuNext ==
    \/ MuConstruct
    \/ MuFinishTransform
    \/ MuLoad

SpecMutationInit == MuInit /\ OldIdle /\ HbIdle /\ CcIdle /\ PlIdle /\ SgIdle

SpecMutation == SpecMutationInit /\ [][MuNext]_vars

ScalarFields ==
    {"id", "source_kind_id", "event_id", "event_type", "employee_id", "metrics"}

-----------------------------------------------------------------------------
(* Two insert_events_batch calls of etl/db/db.py running at once, each in   *)
(* its own connection and transaction (psycopg2's default: READ COMMITTED). *)
(* Every event belongs to the one parent b-1.                               *)

CcFrame == UNCHANGED <<oldVars, hbVars, muVars, plVars, sgVars>>

Writers == {1, 2}
Other(w) == 3 - w

\* the event_properties a call's batch carries for the parent
WriterProps(w) == IF w = 1 THEN "v1" ELSE "v2"

\* the batches: disjoint, or both holding e2
CcBatches(w) ==
    IF w = 1 THEN {<<"e1">>, <<"e1", "e2">>} ELSE {<<"e3">>, <<"e2", "e3">>}

CcTables == { << >>, [id \in {"e0"} |-> "v0"] }

NewTx(events, props) ==
    [pc |-> "insert", events |-> events, props |-> props,
     inserted |-> {}, snapshot |-> {}, updated |-> {}]

Ids(events) == { events[k] : k \in DOMAIN events }

InProgress(w) == cc_tx[w].pc # "done"

CcInit ==
    /\ cc_table \in CcTables
    /\ cc_tx \in { [w \in Writers |-> NewTx(b[w], WriterProps(w))] :
                    b \in [Writers -> UNION { CcBatches(w) : w \in Writers }] }
    /\ \A w \in Writers : cc_tx[w].events \in CcBatches(w)

\* INSERT ... ON CONFLICT (event_id) DO NOTHING: a committed row of the same
\* event_id is skipped; a row of the same event_id inserted by a transaction
\* still in progress makes the statement wait for that transaction.
TxInsert(w) ==
    /\ cc_tx[w].pc = "insert"
    /\ Ids(cc_tx[w].events) \cap cc_tx[Other(w)].inserted = {}
    /\ cc_tx' = [cc_tx EXCEPT
          ![w].inserted = Ids(cc_tx[w].events) \ DOMAIN cc_table,
          ![w].pc = "update"]
    /\ UNCHANGED cc_table
    /\ CcFrame

\* The parent UPDATE starts: its snapshot holds the rows committed by now
\* and the transaction's own.
TxUpdateStarts(w) ==
    /\ cc_tx[w].pc = "update"
    /\ cc_tx' = [cc_tx EXCEPT
          ![w].snapshot = DOMAIN cc_table \cup cc_tx[w].inserted,
          ![w].pc = "updating"]
    /\ UNCHANGED cc_table
    /\ CcFrame

\* The parent UPDATE ends: it has waited for the rows another transaction
\* in progress has updated, and writes the rows of its snapshot.
TxUpdateEnds(w) ==
    /\ cc_tx[w].pc = "updating"
    /\ cc_tx[w].snapshot \cap cc_tx[Other(w)].updated = {}
    /\ cc_tx' = [cc_tx EXCEPT
          ![w].updated = cc_tx[w].snapshot,
          ![w].pc = "commit"]
    /\ UNCHANGED cc_table
    /\ CcFrame

\* conn.commit(): the transaction's rows become the committed ones.
TxCommit(w) ==
    /\ cc_tx[w].pc = "commit"
    /\ LET written == cc_tx[w].inserted \cup cc_tx[w].updated IN
       cc_table' = [id \in DOMAIN cc_table \cup written |->
                       IF id \in written THEN cc_tx[w].props ELSE cc_table[id]]
    /\ cc_tx' = [cc_tx EXCEPT ![w].pc = "done", ![w].inserted = {},
                              ![w].updated = {}]
    /\ CcFrame

CcNext ==
    \/ \E w \in Writers : TxInsert(w)
    \/ \E w \in Writers : TxUpdateStarts(w)
    \/ \E w \in Writers : TxUpdateEnds(w)
    \/ \E w \in Writers : TxCommit(w)

SpecConcInit == CcInit /\ OldIdle /\ HbIdle /\ MuIdle /\ PlIdle /\ SgIdle

SpecConc == SpecConcInit /\ [][CcNext]_vars

AllCommitted == \A w \in Writers : cc_tx[w].pc = "done"

\* C23: once the calls have completed, all stored rows of the parent hold
\* one and the same event_properties value, that of one of the writers.
C23_SiblingsAgree ==
    AllCommitted =>
        \E w \in Writers : \A id \in DOMAIN cc_table : cc_table[id] = WriterProps(w)

\* What holds: every stored row of the parent holds the value of one of the
\* writers (not necessarily the same one).
C23_EachRowFromSomeWriter ==
    AllCommitted =>
        \A id \in DOMAIN cc_table : \E w \in Writers : cc_table[id] = WriterProps(w)

\* both calls committed and two rows of the parent differ
C23_SiblingsDiffer ==
    /\ AllCommitted
    /\ \E a \in DOMAIN cc_table, b \in DOMAIN cc_table : cc_table[a] # cc_table[b]

\* ---------------------------------------------------------------------------
\* Threads sharing the Database of src/db/db.py: get_connection, close and the
\* pool lock (SpecPool).
\* ---------------------------------------------------------------------------

PlFrame == UNCHANGED <<oldVars, hbVars, muVars, ccVars, sgVars>>

Threads == {1, 2}

\* What a thread does with the Database, one call after the other.
Plans == {<<"get">>, <<"close", "get">>}

\* A thread that is in no call of the Database.
NewThread(plan) == [pc |-> "idle", plan |-> plan, connection |-> 0, attempt |-> 0,
                    yields |-> 0, puts |-> 0, thrown |-> FALSE,
                    found_closed |-> FALSE, error |-> ""]

\* The pool _init_database creates: open, min_conn connections waiting.
OpenPool == NewPool @@ [pool_closed |-> FALSE]

\* pool.closeall(): every connection of the pool, waiting or checked out, is
\* closed and the pool is marked closed.
closeall(p) == [p EXCEPT !.closed = @ \cup p.idle \cup p.held, !.idle = {},
                         !.pool_closed = TRUE]

\* _recreate_pool left out: the closed pool stays.
recreate_pool_skipped(p) == p

\* _recreate_pool: close the old pool if it is still open, then a new
\* ThreadedConnectionPool with min_conn fresh connections and nothing
\* checked out.
recreate_pool(p) ==
    LET old == IF p.pool_closed THEN p ELSE closeall(p) IN
    [old EXCEPT !.made = @ + min_conn,
                !.idle = (old.made + 1)..(old.made + min_conn),
                !.held = {},
                !.pool_closed = FALSE]

\* Database.close(): closeall unless the pool is closed already.
close(p) == IF p.pool_closed THEN p ELSE closeall(p)

\* The end of "with self._pool_lock:" around the checkout: the lock is kept
\* by thread t until the end of the attempt.
CheckoutKeepsLock(t) == t

\* The end of "with self._pool_lock:" around the checkout: the lock is free.
CheckoutReleasesLock(t) == 0

\* The for loop of get_connection goes to its next attempt, or is over and
\* the generator raises "Failed to get healthy database connection".
PlNextAttempt(th) ==
    IF th.attempt + 1 \in ConnAttemptRange
    THEN [th EXCEPT !.attempt = @ + 1, !.pc = "enter"]
    ELSE [th EXCEPT !.pc = "failed"]

\* The except clause of get_connection is entered with exception e.
PlRaise(th, e) == [th EXCEPT !.pc = "except", !.error = e]

PlInit ==
    /\ pl_lock = 0
    /\ pl_pool \in {OpenPool, closeall(OpenPool)}
    /\ pl_th \in [Threads -> {NewThread(plan) : plan \in Plans}]

\* The thread makes its next call: get_connection() (connection = None, the
\* loop at its first attempt) or close().
PlBegin(t) ==
    /\ pl_th[t].pc = "idle"
    /\ pl_th[t].plan # << >>
    /\ pl_th' = [pl_th EXCEPT ![t] =
                    [NewThread(Tail(pl_th[t].plan)) EXCEPT
                        !.pc = IF Head(pl_th[t].plan) = "get" THEN "enter" ELSE "close"]]
    /\ UNCHANGED <<pl_lock, pl_pool>>
    /\ PlFrame

\* "with self._pool_lock:" of the checkout is entered.
PlLock(t) ==
    /\ pl_th[t].pc = "enter"
    /\ pl_lock = 0
    /\ pl_lock' = t
    /\ pl_th' = [pl_th EXCEPT ![t].pc = "checkout"]
    /\ UNCHANGED pl_pool
    /\ PlFrame

\* Under the lock: the closed pool is recreated, a connection is checked out
\* (PoolError from a pool that is closed), and the lock is released.
PlCheckout(t) ==
    /\ pl_th[t].pc = "checkout"
    /\ pl_lock = t
    /\ LET p == IF pl_pool.pool_closed THEN recreate_pool(pl_pool) ELSE pl_pool IN
       IF p.pool_closed
       THEN /\ pl_pool' = p
            /\ pl_th' = [pl_th EXCEPT ![t] = PlRaise(@, "PoolError")]
       ELSE /\ pl_pool' = Getconn(p)
            /\ pl_th' = [pl_th EXCEPT ![t].pc = "health",
                                      ![t].connection = Getconn(p).connection,
                                      ![t].puts = 0,
                                      ![t].found_closed = pl_pool.pool_closed]
    /\ pl_lock' = CheckoutReleasesLock(t)
    /\ PlFrame

\* Under the lock: the database cannot be reached when a connection has to be
\* opened (for the new pool, or because none waits in the pool); the
\* OperationalError leaves the with block and the lock is released.
PlCheckoutRaises(t) ==
    /\ pl_th[t].pc = "checkout"
    /\ pl_lock = t
    /\ pl_pool.pool_closed \/ pl_pool.idle = {}
    /\ pl_th' = [pl_th EXCEPT ![t] = PlRaise(@, "OperationalError")]
    /\ pl_lock' = 0
    /\ UNCHANGED pl_pool
    /\ PlFrame

\* _is_connection_healthy, outside the lock: SELECT 1 on an open connection
\* succeeds, and the generator yields. A generator that was resumed by an
\* exception of the with-body yields a second time: the caller gets
\* RuntimeError and the generator stays suspended at that yield.
PlHealthy(t) ==
    /\ pl_th[t].pc = "health"
    /\ pl_th[t].connection \notin pl_pool.closed
    /\ pl_th' = [pl_th EXCEPT ![t].pc = IF pl_th[t].thrown THEN "suspended" ELSE "body",
                              ![t].yields = @ + 1]
    /\ UNCHANGED <<pl_lock, pl_pool>>
    /\ PlFrame

\* _is_connection_healthy returns False: the connection is closed, or the
\* round-trip failed.
PlUnhealthy(t) ==
    /\ pl_th[t].pc = "health"
    /\ pl_th' = [pl_th EXCEPT ![t].pc = "discard"]
    /\ UNCHANGED <<pl_lock, pl_pool>>
    /\ PlFrame

\* The else branch, under the lock: putconn(connection, close=True) unless the
\* pool is closed (PoolError for a connection the pool does not know as
\* checked out), then the loop goes on without sleeping.
PlDiscard(t) ==
    /\ pl_th[t].pc = "discard"
    /\ pl_lock = 0
    /\ LET th == pl_th[t] IN
       IF pl_pool.pool_closed
       THEN /\ pl_th' = [pl_th EXCEPT ![t] = PlNextAttempt(th)]
            /\ UNCHANGED pl_pool
       ELSE IF th.connection \notin pl_pool.held
       THEN /\ pl_th' = [pl_th EXCEPT ![t] = PlRaise(th, "PoolError")]
            /\ UNCHANGED pl_pool
       ELSE /\ pl_th' = [pl_th EXCEPT ![t] = PlNextAttempt([th EXCEPT !.puts = @ + 1])]
            /\ pl_pool' = Putconn(pl_pool, th.connection, TRUE)
    /\ UNCHANGED pl_lock
    /\ PlFrame

\* The statements of the with-body end, outside the lock.
PlBodyEnds(t) ==
    /\ pl_th[t].pc = "body"
    /\ pl_th' = [pl_th EXCEPT ![t].pc = "checkin"]
    /\ UNCHANGED <<pl_lock, pl_pool>>
    /\ PlFrame

\* A statement of the with-body raises: the exception is thrown into the
\* generator at its yield.
PlBodyRaises(t) ==
    /\ pl_th[t].pc = "body"
    /\ pl_th' = [pl_th EXCEPT ![t].pc = "checkin", ![t].thrown = TRUE,
                              ![t].error = "BodyError"]
    /\ UNCHANGED <<pl_lock, pl_pool>>
    /\ PlFrame

\* The finally clause, under the lock: putconn(connection) unless the pool is
\* closed. After a normal with-body the generator returns; an exception of
\* the with-body, or the PoolError of putconn, goes on to the except clause.
PlCheckin(t) ==
    /\ pl_th[t].pc = "checkin"
    /\ pl_lock = 0
    /\ LET th == pl_th[t]
           refused == ~pl_pool.pool_closed /\ th.connection \notin pl_pool.held
           given == ~pl_pool.pool_closed /\ th.connection \in pl_pool.held
           put == IF given THEN [th EXCEPT !.puts = @ + 1] ELSE th
       IN
       /\ pl_pool' = IF given THEN Putconn(pl_pool, th.connection, FALSE) ELSE pl_pool
       /\ pl_th' = [pl_th EXCEPT ![t] =
                        IF refused THEN PlRaise([put EXCEPT !.thrown = TRUE], "PoolError")
                        ELSE IF th.thrown THEN PlRaise(put, th.error)
                        ELSE [put EXCEPT !.pc = "idle"]]
    /\ UNCHANGED pl_lock
    /\ PlFrame

\* The except clause: putconn(connection, close=True) under the lock when a
\* connection was ever checked out and the pool is open (its PoolError is
\* swallowed), then sleep and the next attempt.
PlExcept(t) ==
    /\ pl_th[t].pc = "except"
    /\ pl_lock = 0
    /\ LET th == pl_th[t]
           given == /\ th.connection # 0
                    /\ ~pl_pool.pool_closed
                    /\ th.connection \in pl_pool.held
       IN
       /\ pl_pool' = IF given THEN Putconn(pl_pool, th.connection, TRUE) ELSE pl_pool
       /\ pl_th' = [pl_th EXCEPT ![t] =
                        PlNextAttempt(IF given THEN [th EXCEPT !.puts = @ + 1] ELSE th)]
    /\ UNCHANGED pl_lock
    /\ PlFrame

\* The suspended generator is finalised: GeneratorExit at the yield runs the
\* finally clause and leaves the generator.
PlFinalise(t) ==
    /\ pl_th[t].pc = "suspended"
    /\ pl_lock = 0
    /\ LET th == pl_th[t]
           given == ~pl_pool.pool_closed /\ th.connection \in pl_pool.held
       IN
       /\ pl_pool' = IF given THEN Putconn(pl_pool, th.connection, FALSE) ELSE pl_pool
       /\ pl_th' = [pl_th EXCEPT ![t].pc = "finalised",
                                 ![t].puts = IF given THEN @ + 1 ELSE @]
    /\ UNCHANGED pl_lock
    /\ PlFrame

\* Database.close(), under the lock.
PlClose(t) ==
    /\ pl_th[t].pc = "close"
    /\ pl_lock = 0
    /\ pl_pool' = close(pl_pool)
    /\ pl_th' = [pl_th EXCEPT ![t].pc = "idle"]
    /\ UNCHANGED pl_lock
    /\ PlFrame

PlNext ==
    \/ \E t \in Threads : PlBegin(t)
    \/ \E t \in Threads : PlLock(t)
    \/ \E t \in Threads : PlCheckout(t)
    \/ \E t \in Threads : PlCheckoutRaises(t)
    \/ \E t \in Threads : PlHealthy(t)
    \/ \E t \in Threads : PlUnhealthy(t)
    \/ \E t \in Threads : PlDiscard(t)
    \/ \E t \in Threads : PlBodyEnds(t)
    \/ \E t \in Threads : PlBodyRaises(t)
    \/ \E t \in Threads : PlCheckin(t)
    \/ \E t \in Threads : PlExcept(t)
    \/ \E t \in Threads : PlFinalise(t)
    \/ \E t \in Threads : PlClose(t)

SpecPoolInit == PlInit /\ OldIdle /\ HbIdle /\ MuIdle /\ CcIdle /\ SgIdle

SpecPool == SpecPoolInit /\ [][PlNext]_vars

\* The states in which a thread executes a database query: the round-trip of
\* the health check, or the statements of the with-body.
InQuery(t) == pl_th[t].pc \in {"health", "body"}

\* C26: the pool lock is never held by a thread that executes a query (the
\* health check or the with-body), so a thread waiting for the lock is never
\* waiting for a thread that is in a query.
C26_NoLockDuringQuery ==
    \A t \in Threads :
        /\ InQuery(t) => pl_lock # t
        /\ pl_lock = t => pl_th[t].pc = "checkout"

\* one thread is in its with-body while the other one holds the pool lock
C26_Witness ==
    \E t \in Threads, u \in Threads :
        /\ pl_th[t].pc = "body"
        /\ pl_lock = u
        /\ u # t

\* get_pool_status()["status"], read under the lock.
get_pool_status(p) == IF p.pool_closed THEN "closed" ELSE "active"

\* Thread t leaves the locked checkout of get_connection in this step.
CheckoutStep(t) == pl_th[t].pc = "checkout" /\ pl_th'[t].pc # "checkout"

\* C27: a checkout that finds the pool closed recreates it before a connection
\* is taken: unless the database cannot be reached, the step leaves the pool
\* active and the thread holding an open connection of the new pool, going
\* on to the health check; and the connection that is yielded is an open one.
C27_ClosedPoolIsRecreated ==
    [][\A t \in Threads :
        /\ (CheckoutStep(t) /\ get_pool_status(pl_pool) = "closed") =>
              \/ pl_th'[t].error = "OperationalError" /\ pl_th'[t].pc = "except"
              \/ /\ get_pool_status(pl_pool') = "active"
                 /\ pl_th'[t].pc = "health"
                 /\ pl_th'[t].found_closed
                 /\ pl_th'[t].connection \in pl_pool'.held
                 /\ pl_th'[t].connection \notin pl_pool'.closed
                 /\ pl_th'[t].connection \notin pl_pool.closed \cup pl_pool.held
        /\ (pl_th[t].pc = "health" /\ pl_th'[t].pc = "body") =>
              pl_th[t].connection \notin pl_pool.closed
      ]_vars

\* a first attempt found the pool closed and has yielded an open connection
\* of the recreated pool, which is active
C27_Witness ==
    \E t \in Threads :
        /\ pl_th[t].pc = "body"
        /\ pl_th[t].found_closed
        /\ pl_th[t].attempt = 0
        /\ pl_th[t].connection \in pl_pool.held
        /\ pl_th[t].connection \notin pl_pool.closed
        /\ get_pool_status(pl_pool) = "active"

\* The get_connection call of thread t is over for its caller: it has left the
\* with statement, or the with statement has raised.
CallOver(t) == pl_th[t].pc \in {"idle", "failed", "suspended", "finalised"}

\* C29: get_connection yields at most once per with statement; no connection
\* is given back to the pool twice; and once the call is over the connection
\* it checked out last has been given back (or was closed with its pool).
C29_GivenBackExactlyOnce ==
    \A t \in Threads :
        /\ pl_th[t].yields <= 1
        /\ pl_th[t].puts <= 1
        /\ CallOver(t) =>
              \/ pl_th[t].connection = 0
              \/ pl_th[t].puts = 1
              \/ pl_th[t].connection \in pl_pool.closed

\* The same without the exception of a with-body: calls whose body ended
\* normally give every connection back exactly once and yield once.
C29_GivenBackOnceWithoutBodyError ==
    \A t \in Threads :
        ~pl_th[t].thrown =>
            /\ pl_th[t].yields <= 1
            /\ pl_th[t].puts <= 1
            /\ CallOver(t) =>
                  \/ pl_th[t].connection = 0
                  \/ pl_th[t].puts = 1
                  \/ pl_th[t].connection \in pl_pool.closed

\* a connection has been given back twice: the second putconn closed it
\* while another thread had checked it out
C29_GivenBackTwice ==
    \E t \in Threads, u \in Threads :
        /\ u # t
        /\ pl_th[t].puts = 2
        /\ pl_th[u].pc = "body"
        /\ pl_th[u].connection = pl_th[t].connection
        /\ pl_th[u].connection \in pl_pool.closed
        /\ ~pl_pool.pool_closed

\* ---------------------------------------------------------------------------
\* Construction of the three database clients by concurrent threads, each
\* followed by one insert_events_batch: the singleton's double-checked
\* locking and the table's creation (SpecSingleton).
\* ---------------------------------------------------------------------------

SgFrame == UNCHANGED <<oldVars, hbVars, muVars, ccVars, plVars>>

Clients == {"worker", "etl", "pool"}

\* the source_kind_id of the events a thread loads
SgKinds == {<<"a">>, <<"a", "1">>}

\* The non-empty insert_events_batch call thread t makes.
SgCall(t) == [client |-> sg_in.client,
              events |-> <<LdEvent(sg_in.kind[t])>>,
              config_table |-> <<"a">>]

SgIo(op, t) == [op |-> op, table |-> events_table(SgCall(t)), thread |-> t]

\* if cls._instance is None
NewNeeded(instance) == instance = 0

\* "if not Database._initialized" read as always true.
InitAlwaysNeeded(initialized) == TRUE

\* if not Database._initialized
InitNeeded(initialized) == initialized # "True"

\* No client creates its table inside insert_events_batch.
EnsuredNever(client) == FALSE

\* WorkplaceDBClient creates its table inside every insert_events_batch; the
\* two Database classes do so in their constructor.
EnsuredPerCall(client) == client = "worker"

\* db/db.py keeps _initialized on the class and guards __init__ with _lock;
\* the other two set it on the instance inside __new__.
FlagOnClass(client) == client = "pool"

SgInit ==
    /\ sg_in \in [client : Clients, kind : [Threads -> SgKinds]]
    /\ sg_lock = 0
    /\ sg_cls = [instance |-> 0, created |-> 0, inits |-> 0,
                 initialized |-> IF FlagOnClass(sg_in.client) THEN "False" ELSE "unset"]
    /\ sg_log = << >>
    /\ sg_th = [t \in Threads |-> [pc |-> "call", self |-> 0, error |-> ""]]

\* __new__: the first test of _instance, outside the lock.
SgNewCheck(t) ==
    /\ sg_th[t].pc = "call"
    /\ sg_th' = [sg_th EXCEPT ![t] =
                    IF NewNeeded(sg_cls.instance)
                    THEN [@ EXCEPT !.pc = "new_lock"]
                    ELSE [@ EXCEPT !.pc = "init", !.self = sg_cls.instance]]
    /\ UNCHANGED <<sg_in, sg_lock, sg_cls, sg_log>>
    /\ SgFrame

\* __new__: with cls._lock
SgNewLock(t) ==
    /\ sg_th[t].pc = "new_lock"
    /\ sg_lock = 0
    /\ sg_lock' = t
    /\ sg_th' = [sg_th EXCEPT ![t].pc = "new_locked"]
    /\ UNCHANGED <<sg_in, sg_cls, sg_log>>
    /\ SgFrame

\* __new__ under the lock: the second test, and the instance is created.
\* db/db.py leaves the lock at once; the other two still have to set
\* _initialized on the new instance.
SgNewLocked(t) ==
    /\ sg_th[t].pc = "new_locked"
    /\ sg_lock = t
    /\ IF NewNeeded(sg_cls.instance)
       THEN /\ sg_cls' = [sg_cls EXCEPT !.instance = sg_cls.created + 1,
                                        !.created = @ + 1]
            /\ IF FlagOnClass(sg_in.client)
               THEN /\ sg_lock' = 0
                    /\ sg_th' = [sg_th EXCEPT ![t].pc = "init",
                                              ![t].self = sg_cls.created + 1]
               ELSE /\ sg_lock' = t
                    /\ sg_th' = [sg_th EXCEPT ![t].pc = "new_flag"]
       ELSE /\ sg_lock' = 0
            /\ sg_th' = [sg_th EXCEPT ![t].pc = "init", ![t].self = sg_cls.instance]
            /\ UNCHANGED sg_cls
    /\ UNCHANGED <<sg_in, sg_log>>
    /\ SgFrame

\* __new__ of the etl and worker clients: cls._instance._initialized = False,
\* the last statement under the lock.
SgNewFlag(t) ==
    /\ sg_th[t].pc = "new_flag"
    /\ sg_lock = t
    /\ sg_cls' = [sg_cls EXCEPT !.initialized = "False"]
    /\ sg_lock' = 0
    /\ sg_th' = [sg_th EXCEPT ![t].pc = "init", ![t].self = sg_cls.instance]
    /\ UNCHANGED <<sg_in, sg_log>>
    /\ SgFrame

\* __init__: the test of _initialized outside any lock. db/db.py goes for the
\* lock; the etl Database goes on to _ensure_schema; the worker client only
\* reads its configuration. An instance whose attribute is not set yet gives
\* AttributeError.
SgInitCheck(t) ==
    /\ sg_th[t].pc = "init"
    /\ IF sg_cls.initialized = "unset"
       THEN /\ sg_th' = [sg_th EXCEPT ![t].pc = "raised", ![t].error = "AttributeError"]
            /\ UNCHANGED sg_cls
       ELSE IF sg_cls.initialized = "True"
       THEN /\ sg_th' = [sg_th EXCEPT ![t].pc = "constructed"]
            /\ UNCHANGED sg_cls
       ELSE IF FlagOnClass(sg_in.client)
       THEN /\ sg_th' = [sg_th EXCEPT ![t].pc = "init_lock"]
            /\ UNCHANGED sg_cls
       ELSE IF EnsuredPerCall(sg_in.client)
       THEN /\ sg_th' = [sg_th EXCEPT ![t].pc = "constructed"]
            /\ sg_cls' = [sg_cls EXCEPT !.initialized = "True"]
       ELSE /\ sg_th' = [sg_th EXCEPT ![t].pc = "ensure"]
            /\ UNCHANGED sg_cls
    /\ UNCHANGED <<sg_in, sg_lock, sg_log>>
    /\ SgFrame

\* db/db.py __init__: with Database._lock
SgInitLock(t) ==
    /\ sg_th[t].pc = "init_lock"
    /\ sg_lock = 0
    /\ sg_lock' = t
    /\ sg_th' = [sg_th EXCEPT ![t].pc = "init_locked"]
    /\ UNCHANGED <<sg_in, sg_cls, sg_log>>
    /\ SgFrame

\* db/db.py __init__ under the lock: the second test; _init_database creates
\* the pool and enters _ensure_schema, or there is nothing left to do.
SgInitLocked(t) ==
    /\ sg_th[t].pc = "init_locked"
    /\ sg_lock = t
    /\ IF InitNeeded(sg_cls.initialized)
       THEN /\ sg_lock' = t
            /\ sg_th' = [sg_th EXCEPT ![t].pc = "ensure"]
       ELSE /\ sg_lock' = 0
            /\ sg_th' = [sg_th EXCEPT ![t].pc = "constructed"]
    /\ UNCHANGED <<sg_in, sg_cls, sg_log>>
    /\ SgFrame

\* _ensure_schema / _ensure_table_in_schema: CREATE TABLE IF NOT EXISTS is
\* executed on a connection of its own.
SgCreateTable(t) ==
    /\ sg_th[t].pc = "ensure"
    /\ sg_log' = Append(sg_log, SgIo("CREATE", t))
    /\ sg_th' = [sg_th EXCEPT ![t].pc = "commit"]
    /\ UNCHANGED <<sg_in, sg_lock, sg_cls>>
    /\ SgFrame

\* conn.commit() of the table's creation. The constructors then set
\* _initialized and return (db/db.py leaves the lock); the worker client goes
\* on to its statements.
SgCommit(t) ==
    /\ sg_th[t].pc = "commit"
    /\ sg_log' = Append(sg_log, SgIo("commit", t))
    /\ IF EnsuredPerCall(sg_in.client)
       THEN /\ sg_th' = [sg_th EXCEPT ![t].pc = "insert"]
            /\ UNCHANGED <<sg_cls, sg_lock>>
       ELSE /\ sg_th' = [sg_th EXCEPT ![t].pc = "constructed"]
            /\ sg_cls' = [sg_cls EXCEPT !.initialized = "True", !.inits = @ + 1]
            /\ sg_lock' = IF sg_lock = t THEN 0 ELSE sg_lock
    /\ UNCHANGED sg_in
    /\ SgFrame

\* The connection, the CREATE or its commit fails: the exception leaves the
\* constructor (or insert_events_batch of the worker client), and the lock
\* with it.
SgEnsureFails(t) ==
    /\ sg_th[t].pc \in {"ensure", "commit"}
    /\ sg_th' = [sg_th EXCEPT ![t].pc = "raised", ![t].error = "OperationalError"]
    /\ sg_lock' = IF sg_lock = t THEN 0 ELSE sg_lock
    /\ UNCHANGED <<sg_in, sg_cls, sg_log>>
    /\ SgFrame

\* insert_events_batch is called on the instance the constructor returned.
SgInsertCall(t) ==
    /\ sg_th[t].pc = "constructed"
    /\ sg_th' = [sg_th EXCEPT ![t].pc =
                    IF EnsuredPerCall(sg_in.client) THEN "ensure" ELSE "insert"]
    /\ UNCHANGED <<sg_in, sg_lock, sg_cls, sg_log>>
    /\ SgFrame

\* The statements of insert_events_batch are sent.
SgInsert(t) ==
    /\ sg_th[t].pc = "insert"
    /\ sg_log' = sg_log \o [k \in 1..Len(StatementsOf(sg_in.client)) |->
                              SgIo(StatementsOf(sg_in.client)[k], t)]
    /\ sg_th' = [sg_th EXCEPT ![t].pc = "done"]
    /\ UNCHANGED <<sg_in, sg_lock, sg_cls>>
    /\ SgFrame

SgNext ==
    \/ \E t \in Threads : SgNewCheck(t)
    \/ \E t \in Threads : SgNewLock(t)
    \/ \E t \in Threads : SgNewLocked(t)
    \/ \E t \in Threads : SgNewFlag(t)
    \/ \E t \in Threads : SgInitCheck(t)
    \/ \E t \in Threads : SgInitLock(t)
    \/ \E t \in Threads : SgInitLocked(t)
    \/ \E t \in Threads : SgCreateTable(t)
    \/ \E t \in Threads : SgCommit(t)
    \/ \E t \in Threads : SgEnsureFails(t)
    \/ \E t \in Threads : SgInsertCall(t)
    \/ \E t \in Threads : SgInsert(t)

SpecSingletonInit == SgInit /\ OldIdle /\ HbIdle /\ MuIdle /\ CcIdle /\ PlIdle

SpecSingleton == SpecSingletonInit /\ [][SgNext]_vars

\* Statement k of the log is preceded by the creation of its table and,
\* after that, by the commit of the connection that created it.
EnsuredBefore(k) ==
    \E i \in 1..(k - 1), j \in 1..(k - 1) :
        /\ i < j
        /\ sg_log[i].op = "CREATE"
        /\ sg_log[i].table = sg_log[k].table
        /\ sg_log[j].op = "commit"
        /\ sg_log[j].thread = sg_log[i].thread
        /\ sg_log[j].table = sg_log[i].table

\* C28: every INSERT and UPDATE is sent after CREATE TABLE IF NOT EXISTS for
\* its table was executed and committed.
C28_EnsuredBeforeFirstUse ==
    \A k \in DOMAIN sg_log :
        sg_log[k].op \in {"INSERT", "UPDATE"} => EnsuredBefore(k)

\* a thread has sent its statements to a table that only the other thread's
\* constructor created and committed
C28_Witness ==
    \E k \in DOMAIN sg_log :
        /\ sg_log[k].op = "INSERT"
        /\ \A i \in 1..(k - 1) : sg_log[i].thread # sg_log[k].thread
        /\ EnsuredBefore(k)

\* two calls of the worker client on different tables, each having created
\* and committed its own table before its statements
C28_OwnTableWitness ==
    \E k \in DOMAIN sg_log :
        /\ sg_log[k].op = "UPDATE"
        /\ sg_in.client = "worker"
        /\ sg_in.kind[1] # sg_in.kind[2]
        /\ Len(sg_log) = 8

\* The constructor call of thread t has returned.
Constructed(t) == sg_th[t].pc \in {"constructed", "insert", "done"}

\* C30: for db/db.py's Database under concurrent construction, one instance
\* is ever created and every caller gets it, _init_database completes at
\* most once, and a constructor returns only after it has completed.
C30_SingletonInitialisedOnce ==
    sg_in.client = "pool" =>
        /\ sg_cls.created <= 1
        /\ sg_cls.inits <= 1
        /\ \A t \in Threads :
              Constructed(t) =>
                  /\ sg_th[t].self = sg_cls.instance
                  /\ sg_th[t].self # 0
                  /\ sg_cls.initialized = "True"
                  /\ sg_cls.inits = 1
        /\ \A t \in Threads, u \in Threads :
              (Constructed(t) /\ Constructed(u)) => sg_th[t].self = sg_th[u].self

\* one thread is inside _init_database under the lock while the other has
\* seen _initialized False and waits for the lock
C30_Witness ==
    \E t \in Threads, u \in Threads :
        /\ sg_in.client = "pool"
        /\ sg_th[t].pc \in {"ensure", "commit"}
        /\ sg_lock = t
        /\ sg_th[u].pc = "init_lock"

\* both constructors have returned, the second one without initialising
C30_BothConstructed ==
    /\ sg_in.client = "pool"
    /\ \A t \in Threads : Constructed(t)
    /\ sg_cls.inits = 1

====
